---- MODULE Spec2Model ----
(***************************************************************************)
(* A model of cachito/web/content_manifest.py: the ContentManifest builder *)
(* (to_json, sbom_components_list, generate_icm and the process_* methods) *)
(* and the Package record.                                                 *)
(*                                                                         *)
(* Strings that the code takes apart or compares are sequences of tokens:  *)
(* a module name "org/proj/foo" is <<"org", "proj", "foo">>, a purl        *)
(* "pkg:golang/org%2Fproj@v1" is <<"pkg:", "golang", "/", "org", "%2F",    *)
(* "proj", "@", "v1">>.  Python dicts are sequences of [k, v] pairs in     *)
(* insertion order, so that key order and first-seen order are state.      *)
(***************************************************************************)
EXTENDS Integers, Sequences, FiniteSets, TLC

(***************************************************************************)
(* Bounds of the model.                                                    *)
(***************************************************************************)
\* the longest package list a ContentManifest is built over
MaxPkgs == 2
\* the longest dependency list of a package
MaxDeps == 2
\* the number of calls made on one instance in one behaviour
MaxCalls == 2
\* the longest list of Go packages a ContentManifest is built over
MaxGoPkgs == 3
MaxRaw == 2
MaxAppends == 2

(***************************************************************************)
(* Program constants (content_manifest.py, lines 20-40).                   *)
(***************************************************************************)
VERSION == 1
JSON_SCHEMA_URL == "https://raw.githubusercontent.com/containerbuildsystem/atomic-reactor/f4abcfdaf8247a6b074f94fa84f3846f82d781c6/atomic_reactor/schemas/content_manifest.json"
UNKNOWN_LAYER_INDEX == -1

(***************************************************************************)
(* Python dicts: a sequence of [k |-> key, v |-> value], insertion order.  *)
(***************************************************************************)
KV(key, val) == [k |-> key, v |-> val]

HasKey(d, key) == \E n \in 1..Len(d) : d[n].k = key

Get(d, key) == d[CHOOSE n \in 1..Len(d) : d[n].k = key].v

\* d[key] = val: an existing key keeps its place, a new key goes last
Put(d, key, val) ==
    IF HasKey(d, key)
    THEN [n \in 1..Len(d) |-> IF d[n].k = key THEN KV(key, val) ELSE d[n]]
    ELSE Append(d, KV(key, val))

\* a variant that stores the value also under a key the dict holds
SetAnew(d, key, val) ==
    IF HasKey(d, key)
    THEN [n \in 1..Len(d) |-> IF d[n].k = key THEN KV(key, val) ELSE d[n]]
    ELSE Append(d, KV(key, val))

\* d.setdefault(key, val): the first value stored under a key stays
SetDefault(d, key, val) == IF HasKey(d, key) THEN d ELSE Append(d, KV(key, val))

RECURSIVE Without(_, _)
\* d.pop(key), for the dict that is left
Without(d, key) ==
    IF d = <<>> THEN <<>>
    ELSE IF Head(d).k = key THEN Without(Tail(d), key)
    ELSE <<Head(d)>> \o Without(Tail(d), key)

Keys(d) == [n \in 1..Len(d) |-> d[n].k]

Values(d) == [n \in 1..Len(d) |-> d[n].v]

BASE_ICM ==
    << KV("metadata", << KV("icm_version", VERSION),
                         KV("icm_spec", JSON_SCHEMA_URL),
                         KV("image_layer_index", UNKNOWN_LAYER_INDEX) >>),
       KV("image_contents", [tag |-> "list", val |-> <<>>]) >>

(***************************************************************************)
(* Package versions.  kind is "none" (None), "empty" (""), "plain"         *)
(* ("1.1.1"), "local" (a relative path, "./foo" or "../bar": it starts     *)
(* with "."), "forge" ("github:org/repo#commit" and its git+https form),   *)
(* "unknown" ("unknown://...") or "bogus" ("github:something/odd").        *)
(***************************************************************************)
NoVersion == [kind |-> "none", val |-> "", path |-> <<>>]
EmptyVersion == [kind |-> "empty", val |-> "", path |-> <<>>]
Plain(v) == [kind |-> "plain", val |-> v, path |-> <<>>]
Local(p) == [kind |-> "local", val |-> "", path |-> p]
Forge(repo, commit) == [kind |-> "forge", val |-> commit, path |-> repo]
UnknownProtocol == [kind |-> "unknown", val |-> "", path |-> <<>>]
BogusForge == [kind |-> "bogus", val |-> "", path |-> <<>>]

\* Python truth of a version: None and "" are false
Truthy(version) == version.kind \notin {"none", "empty"}

\* version and version.startswith(".")
IsLocal(version) == version.kind = "local"

(***************************************************************************)
(* Package (content_manifest.py, class Package).                           *)
(***************************************************************************)
\* Package.__init__: path <<>> is None
Package(name, type, version, dev, path, dependencies) ==
    [name |-> name, type |-> type, version |-> version, dev |-> dev,
     path |-> path, dependencies |-> dependencies]

\* the tuple __hash__ and __eq__ are computed from
PackageId(p) == <<p.name, p.type, p.version, p.dev>>

\* Package.__hash__: the hash of the tuple; equal tuples have equal hashes
PackageHash(p) == [hash_of |-> PackageId(p)]

\* isinstance(other, Package): a Package is a value with the six slots
IsPackage(other) ==
    DOMAIN other = {"name", "type", "version", "dev", "dependencies", "path"}

\* a variant that also compares the paths
PackageEqWithPath(p, other) ==
    /\ IsPackage(other)
    /\ p.name = other.name
    /\ p.type = other.type
    /\ p.version = other.version
    /\ p.dev = other.dev
    /\ p.path = other.path

\* Package.__eq__
PackageEq(p, other) ==
    /\ IsPackage(other)
    /\ p.name = other.name
    /\ p.type = other.type
    /\ p.version = other.version
    /\ p.dev = other.dev

(***************************************************************************)
(* Package objects and their lists as objects: a Package holds in          *)
(* `dependencies` the address of a list, heap[a] is the list at address a. *)
(***************************************************************************)
\* None, where an address is expected
NoList == 0

\* a variant that hands out a list the heap holds already when it equals the
\* new one
AllocShared(h, list) ==
    IF \E a \in 1..Len(h) : h[a] = list
    THEN [heap |-> h, addr |-> CHOOSE a \in 1..Len(h) : h[a] = list]
    ELSE [heap |-> Append(h, list), addr |-> Len(h) + 1]

\* a list display or comprehension: a new list object
Alloc(h, list) == [heap |-> Append(h, list), addr |-> Len(h) + 1]

\* Package.__init__ with `dependencies` None or the address of a list
PackageInit(h, name, type, version, dev, path, dependencies) ==
    LET l == IF dependencies = NoList THEN Alloc(h, <<>>)
             ELSE [heap |-> h, addr |-> dependencies]
    IN  [heap |-> l.heap, obj |-> Package(name, type, version, dev, path, l.addr)]

\* what a call gives that raised before a Package was built
NoObject == Package(<<>>, "", NoVersion, FALSE, <<>>, NoList)

RECURSIVE FromJson(_, _)
RECURSIVE ConvertAll(_, _)
\* [Package.from_json(dependency) for dependency in ...], before the list
\* object is made
ConvertAll(h, dependencies) ==
    IF dependencies = <<>> THEN [heap |-> h, objs |-> <<>>, err |-> ""]
    ELSE LET first == FromJson(h, Head(dependencies))
         IN  IF first.err # "" THEN [heap |-> first.heap, objs |-> <<>>, err |-> first.err]
             ELSE LET rest == ConvertAll(first.heap, Tail(dependencies))
                  IN  [heap |-> rest.heap, objs |-> <<first.obj>> \o rest.objs,
                       err |-> rest.err]

\* Package.from_json(package)
FromJson(h, package) ==
    LET converted == ConvertAll(h, IF HasKey(package, "dependencies")
                                   THEN Get(package, "dependencies") ELSE <<>>)
        dependencies == Alloc(converted.heap, converted.objs)
    IN  IF converted.err # "" THEN [heap |-> converted.heap, obj |-> NoObject, err |-> converted.err]
        ELSE IF \E key \in {"name", "type", "version"} : ~HasKey(package, key)
        THEN [heap |-> dependencies.heap, obj |-> NoObject, err |-> "KeyError"]
        ELSE LET p == PackageInit(dependencies.heap,
                                  Get(package, "name"), Get(package, "type"),
                                  Get(package, "version"),
                                  IF HasKey(package, "dev") THEN Get(package, "dev") ELSE FALSE,
                                  IF HasKey(package, "path") THEN Get(package, "path") ELSE <<>>,
                                  dependencies.addr)
             IN  [heap |-> p.heap, obj |-> p.obj, err |-> ""]

(***************************************************************************)
(* Paths: os.path.normpath, os.path.join, Path.relative_to.                *)
(***************************************************************************)
RECURSIVE NormInto(_, _)
NormInto(done, rest) ==
    IF rest = <<>> THEN done
    ELSE IF Head(rest) = "."
         THEN NormInto(done, Tail(rest))
    ELSE IF Head(rest) = ".." /\ done # <<>> /\ done[Len(done)] # ".."
         THEN NormInto(SubSeq(done, 1, Len(done) - 1), Tail(rest))
    ELSE NormInto(Append(done, Head(rest)), Tail(rest))

\* os.path.normpath of a relative path: "a/b/../c" is "a/c", "a/../.." is ".."
Normpath(segs) == NormInto(<<>>, segs)

\* a variant that takes a name for a prefix when its last segment is only the
\* beginning of the segment of the path at its place ("org/pro" of "org/proj")
IsStringPrefix(prefix, path) ==
    /\ prefix # <<>>
    /\ Len(prefix) <= Len(path)
    /\ SubSeq(path, 1, Len(prefix) - 1) = SubSeq(prefix, 1, Len(prefix) - 1)
    /\ \/ path[Len(prefix)] = prefix[Len(prefix)]
       \/ <<prefix[Len(prefix)], path[Len(prefix)]>> = <<"pro", "proj">>

IsPathPrefix(prefix, path) ==
    /\ Len(prefix) <= Len(path)
    /\ SubSeq(path, 1, Len(prefix)) = prefix

\* Path(path).relative_to(Path(base)), base a path prefix of path; "." when equal
RelativeTo(path, base) ==
    IF Len(path) = Len(base) THEN <<".">> ELSE SubSeq(path, Len(base) + 1, Len(path))

\* gomod.match_parent_module: the longest name that is a path prefix of path
MatchParentModule(path, names) ==
    LET owners == {m \in names : IsPathPrefix(m, path)}
    IN  IF owners = {} THEN [found |-> FALSE, name |-> <<>>]
        ELSE [found |-> TRUE,
              name |-> CHOOSE m \in owners : \A o \in owners : Len(o) <= Len(m)]

(***************************************************************************)
(* Purl strings as token sequences, and their order as strings.            *)
(* TokenOrder lists every token in ASCII order; a token that is a proper   *)
(* prefix of one that can stand in the same place ("pro" of "proj") is     *)
(* followed by "%2F", "@" or the end, all below a letter, so that          *)
(* comparing two purls token by token is comparing the strings.            *)
(***************************************************************************)
TokenOrder ==
    << "#", "%2F", "%40", ".", "..", "/", "?vcs_url=", "@", "PARENT_PURL",
       "bad", "bar", "c1", "dep-a", "dep-b", "dep-c", "fmt", "foo", "gem",
       "generic", "github", "gitlab", "golang", "grc", "lib", "namespace",
       "npm", "org", "other", "pkg", "pkg:", "pro", "proj", "py-dep", "py_dep",
       "pypi", "ref", "repo", "requests", "sub", "testrepo", "tour", "v1",
       "v2", "v3", "vendor", "zync" >>

TokenRank(t) == CHOOSE n \in 1..Len(TokenOrder) : TokenOrder[n] = t

RECURSIVE StrLess(_, _)
\* a < b for two strings given as token sequences
StrLess(a, b) ==
    IF b = <<>> THEN FALSE
    ELSE IF a = <<>> THEN TRUE
    ELSE IF Head(a) = Head(b) THEN StrLess(Tail(a), Tail(b))
    ELSE TokenRank(Head(a)) < TokenRank(Head(b))

RECURSIVE JoinWith(_, _)
\* sep.join(segs)
JoinWith(segs, sep) ==
    IF Len(segs) <= 1 THEN segs
    ELSE <<Head(segs), sep>> \o JoinWith(Tail(segs), sep)

\* urllib.parse.quote(name, safe=""): every "/" becomes "%2F"
QuoteName(name) == JoinWith(name, "%2F")

\* the pip name normalisation: lower case, runs of ".", "_", " " become "-"
PipNormalize(name) == [n \in 1..Len(name) |-> IF name[n] = "py_dep" THEN "py-dep" ELSE name[n]]

PARENT_PURL_PLACEHOLDER == <<"PARENT_PURL">>

PurlOk(purl) == [ok |-> TRUE, purl |-> purl, err |-> ""]
PurlErr(kind) == [ok |-> FALSE, purl |-> <<>>, err |-> kind]

\* no relative path (None) and a given one
NoPath == [given |-> FALSE, segs |-> <<>>]
SomePath(segs) == [given |-> TRUE, segs |-> segs]
\* package.path as the relative_path argument: None stays None
PathArg(path) == IF path = <<>> THEN NoPath ELSE SomePath(path)

\* the purl of a repository on a known forge: pkg:<forge>/<org>/<repo>@<commit>
ForgePurl(version) ==
    <<"pkg:", Head(version.path), "/">> \o JoinWith(Tail(version.path), "/")
        \o <<"@", version.val>>

RECURSIVE PathText(_)
\* the segments of a path as one string
PathText(segs) ==
    IF segs = <<>> THEN ""
    ELSE IF Len(segs) = 1 THEN Head(segs)
    ELSE Head(segs) \o "/" \o PathText(Tail(segs))

\* the version as the string it stands for
VersionText(version) ==
    CASE version.kind = "none" -> "None"
      [] version.kind = "empty" -> ""
      [] version.kind = "plain" -> version.val
      [] version.kind = "local" ->
           IF version.path # <<>> /\ Head(version.path) = ".."
           THEN PathText(version.path) ELSE "./" \o PathText(version.path)
      [] version.kind = "forge" ->
           Head(version.path) \o ":" \o PathText(Tail(version.path)) \o "#" \o version.val
      [] version.kind = "unknown" -> "unknown://example.com/dep"
      [] OTHER -> "github:something/odd"

\* the messages of the two errors to_purl raises about a version
UnknownProtocolIn(package) ==
    "Unknown protocol in " \o package.type \o " package version: "
        \o VersionText(package.version)

CouldNotConvert(version) == "Could not convert version " \o VersionText(version) \o " to purl"

\* purl.to_purl(package, relative_path)
ToPurl(package, relative_path) ==
    LET version == package.version
    IN  CASE package.type \in {"gomod", "go-package"} ->
               IF ~Truthy(version)
               THEN PurlOk(<<"pkg:", "golang", "/">> \o QuoteName(package.name))
               ELSE IF IsLocal(version)
               THEN PurlOk(PARENT_PURL_PLACEHOLDER \o
                           (IF relative_path.given
                            THEN <<"#">> \o JoinWith(relative_path.segs, "/")
                            ELSE <<>>))
               ELSE PurlOk(<<"pkg:", "golang", "/">> \o QuoteName(package.name)
                           \o <<"@", version.val>>)
          [] package.type \in {"npm", "yarn"} ->
               CASE version.kind = "plain" ->
                      PurlOk(<<"pkg:", "npm", "/">> \o JoinWith(package.name, "/")
                             \o <<"@", version.val>>)
                 [] version.kind = "empty" ->
                      PurlOk(<<"pkg:", "npm", "/">> \o JoinWith(package.name, "/") \o <<"@">>)
                 [] version.kind = "forge" -> PurlOk(ForgePurl(version))
                 [] version.kind = "bogus" -> PurlErr(CouldNotConvert(version))
                 [] OTHER -> PurlErr(UnknownProtocolIn(package))
          [] package.type = "pip" ->
               CASE version.kind = "plain" ->
                      PurlOk(<<"pkg:", "pypi", "/">>
                             \o JoinWith(PipNormalize(package.name), "/")
                             \o <<"@", version.val>>)
                 [] version.kind = "forge" -> PurlOk(ForgePurl(version))
                 [] OTHER -> PurlErr(UnknownProtocolIn(package))
          [] package.type = "rubygems" ->
               CASE version.kind = "plain" ->
                      PurlOk(<<"pkg:", "gem", "/">> \o JoinWith(package.name, "/")
                             \o <<"@", version.val>>)
                 [] version.kind = "forge" -> PurlOk(ForgePurl(version))
                 [] version.kind = "local" ->
                      PurlOk(PARENT_PURL_PLACEHOLDER \o <<"#">>
                             \o JoinWith(Normpath(relative_path.segs \o version.path), "/"))
                 [] OTHER -> PurlErr(UnknownProtocolIn(package))
          [] package.type = "git-submodule" ->
               CASE version.kind = "forge" -> PurlOk(ForgePurl(version))
                 [] OTHER -> PurlErr(CouldNotConvert(version))
          [] OTHER -> PurlErr("The PURL spec is not defined for " \o package.type
                              \o " packages")

\* purl.to_vcs_purl(name, repo_url, ref)
ToVcsPurl(name, repo, ref) ==
    IF repo.host \in {"github", "bitbucket"}
    THEN <<"pkg:", repo.host, "/">> \o JoinWith(repo.path, "/") \o <<"@", ref>>
    ELSE <<"pkg:", "generic", "/", name, "?vcs_url=", repo.host, "%2F">>
             \o JoinWith(repo.path, "%2F") \o <<"%40", ref>>

\* get_repo_name(request.repo).split("/")[-1]
RepoName(repo) == repo.path[Len(repo.path)]

\* a variant that appends the subpath for every type
ToTopLevelPurlWithSubpath(package, request, subpath) ==
    LET fragment == IF subpath # <<>> THEN <<"#">> \o JoinWith(subpath, "/") ELSE <<>>
    IN  CASE package.type \in {"gomod", "go-package", "git-submodule"} ->
               [ToPurl(package, NoPath) EXCEPT !.purl = IF @ = <<>> THEN @ ELSE @ \o fragment]
          [] package.type \in {"npm", "pip", "yarn", "rubygems"} ->
               PurlOk(ToVcsPurl(RepoName(request.repo), request.repo, request.ref)
                      \o fragment)
          [] OTHER -> PurlErr("'" \o package.type \o "' is not a valid top level package")

\* purl.to_top_level_purl(package, request, subpath)
ToTopLevelPurl(package, request, subpath) ==
    CASE package.type \in {"gomod", "go-package", "git-submodule"} -> ToPurl(package, NoPath)
      [] package.type \in {"npm", "pip", "yarn", "rubygems"} ->
           PurlOk(ToVcsPurl(RepoName(request.repo), request.repo, request.ref)
                  \o (IF subpath # <<>> THEN <<"#">> \o JoinWith(subpath, "/") ELSE <<>>))
      [] OTHER -> PurlErr("'" \o package.type \o "' is not a valid top level package")

RECURSIVE ReplaceToken(_, _)
\* purl.replace_parent_purl_placeholder: dep_purl.replace(PARENT_PURL, parent_purl)
ReplaceToken(dep_purl, parent_purl) ==
    IF dep_purl = <<>> THEN <<>>
    ELSE IF Head(dep_purl) = "PARENT_PURL"
         THEN parent_purl \o ReplaceToken(Tail(dep_purl), parent_purl)
    ELSE <<Head(dep_purl)>> \o ReplaceToken(Tail(dep_purl), parent_purl)

ReplaceParentPurlPlaceholder(dep_purl, parent_purl) == ReplaceToken(dep_purl, parent_purl)

(***************************************************************************)
(* deep_sort_icm (cachito/web/utils.py): sorts the document in place, the  *)
(* keys of every mapping and every list of mappings.                       *)
(***************************************************************************)
KeyOrder ==
    << "dependencies", "egg", "icm_spec", "icm_version", "image_contents",
       "image_layer_index", "metadata", "name", "purl", "sources" >>

KeyRank(key) == CHOOSE n \in 1..Len(KeyOrder) : KeyOrder[n] = key

RECURSIVE InsertKey(_, _)
InsertKey(sorted, pair) ==
    IF sorted = <<>> THEN <<pair>>
    ELSE IF KeyRank(pair.k) < KeyRank(Head(sorted).k) THEN <<pair>> \o sorted
    ELSE <<Head(sorted)>> \o InsertKey(Tail(sorted), pair)

RECURSIVE SortKeys(_)
\* a mapping with its keys in ascending order
SortKeys(d) ==
    IF d = <<>> THEN <<>> ELSE InsertKey(SortKeys(SubSeq(d, 1, Len(d) - 1)), d[Len(d)])

RECURSIVE InsertPurl(_, _)
InsertPurl(sorted, dep) ==
    IF sorted = <<>> THEN <<dep>>
    ELSE IF StrLess(Get(dep, "purl"), Get(Head(sorted), "purl")) THEN <<dep>> \o sorted
    ELSE <<Head(sorted)>> \o InsertPurl(Tail(sorted), dep)

RECURSIVE SortPurlList(_)
\* a list of {purl} mappings in ascending order (a stable insertion sort)
SortPurlList(l) ==
    IF l = <<>> THEN <<>> ELSE InsertPurl(SortPurlList(SubSeq(l, 1, Len(l) - 1)), l[Len(l)])

RECURSIVE PurlListLess(_, _)
PurlListLess(a, b) ==
    IF b = <<>> THEN FALSE
    ELSE IF a = <<>> THEN TRUE
    ELSE IF Get(Head(a), "purl") = Get(Head(b), "purl") THEN PurlListLess(Tail(a), Tail(b))
    ELSE StrLess(Get(Head(a), "purl"), Get(Head(b), "purl"))

\* one image_contents entry sorted: its keys, its dependencies, its sources
SortEntry(e) ==
    SortKeys([n \in 1..Len(e) |->
                 IF e[n].k \in {"dependencies", "sources"}
                 THEN KV(e[n].k, SortPurlList(e[n].v))
                 ELSE e[n]])

\* the order of two sorted entries: their serialised (key, value) pairs in turn
EntryLess(a, b) ==
    LET da == Get(a, "dependencies")
        db == Get(b, "dependencies")
    IN  IF da # db THEN PurlListLess(da, db)
        ELSE IF Get(a, "purl") # Get(b, "purl") THEN StrLess(Get(a, "purl"), Get(b, "purl"))
        ELSE PurlListLess(Get(a, "sources"), Get(b, "sources"))

RECURSIVE InsertEntry(_, _)
InsertEntry(sorted, e) ==
    IF sorted = <<>> THEN <<e>>
    ELSE IF EntryLess(e, Head(sorted)) THEN <<e>> \o sorted
    ELSE <<Head(sorted)>> \o InsertEntry(Tail(sorted), e)

\* a variant that sorts every entry and leaves the entries where they stand
SortEntriesWhereTheyStand(l) == [n \in 1..Len(l) |-> SortEntry(l[n])]

RECURSIVE SortEntries(_)
SortEntries(l) ==
    IF l = <<>> THEN <<>>
    ELSE InsertEntry(SortEntries(SubSeq(l, 1, Len(l) - 1)), SortEntry(l[Len(l)]))

\* Python truth of an argument: None, [], "", 0 and {} are false
TruthyValue(c) ==
    CASE c.tag = "none" -> FALSE
      [] c.tag = "int" -> c.val # 0
      [] c.tag = "str" -> c.val # ""
      [] OTHER -> c.val # <<>>

\* what deep_sort_icm leaves of one value of the document
SortValue(c) ==
    CASE c.tag = "list" -> [tag |-> "list", val |-> SortEntries(c.val)]
      [] c.tag = "dict" -> [tag |-> "dict", val |-> SortKeys(c.val)]
      [] OTHER -> c

\* deep_sort_icm(icm)
DeepSortIcm(icm) ==
    SortKeys([n \in 1..Len(icm) |->
                 IF icm[n].k = "metadata" THEN KV("metadata", SortKeys(icm[n].v))
                 ELSE IF icm[n].k = "image_contents"
                      THEN KV("image_contents", SortValue(icm[n].v))
                 ELSE icm[n]])

\* copy.deepcopy: a value is its own copy; the template itself is left alone
DeepCopy(x) == x

\* a variant that stores the argument whatever its truth
GenerateIcmAsGiven(base, image_contents) ==
    [icm |-> DeepSortIcm(Put(DeepCopy(base), "image_contents", image_contents)),
     base |-> base, shares |-> {}]

\* a variant that copies the template with copy.copy: the document has the
\* metadata object of the template, which deep_sort_icm sorts in place
GenerateIcmShallow(base, image_contents) ==
    LET icm == Put(base, "image_contents",
                   IF TruthyValue(image_contents) THEN image_contents
                   ELSE [tag |-> "list", val |-> <<>>])
    IN  [icm |-> DeepSortIcm(icm),
         base |-> Put(base, "metadata", SortKeys(Get(base, "metadata"))),
         shares |-> {"metadata"}]

\* ContentManifest.generate_icm(image_contents): the document returned, the
\* module-level template BASE_ICM after the call, and the keys of the template
\* whose objects the document has (none: the document is of a deep copy)
GenerateIcm(base, image_contents) ==
    LET icm == Put(DeepCopy(base), "image_contents",
                   IF TruthyValue(image_contents) THEN image_contents
                   ELSE [tag |-> "list", val |-> <<>>])
    IN  [icm |-> DeepSortIcm(icm), base |-> base, shares |-> {}]

(***************************************************************************)
(* The ContentManifest instance.  A step operator takes the instance as a  *)
(* record s of its fields (packages, the working maps, the component list, *)
(* the cached go_modules_by_name, the log of the application logger and    *)
(* the calls made to to_top_level_purl) and gives the instance after the   *)
(* step and the exception raised, "" for none.                             *)
(***************************************************************************)
Ret(s) == [self |-> s, err |-> ""]
Raise(s, kind) == [self |-> s, err |-> kind]

KeySet(d) == {d[n].k : n \in 1..Len(d)}

\* d[key][field].append(item)
AppendTo(d, key, field, item) ==
    LET entry == Get(d, key)
    IN  Put(d, key, Put(entry, field, Append(Get(entry, field), item)))

\* getattr(self, f"_{pkg_type}_data")
TypeData(s, pkg_type) ==
    CASE pkg_type = "npm" -> s.npm_data
      [] pkg_type = "pip" -> s.pip_data
      [] pkg_type = "yarn" -> s.yarn_data
      [] pkg_type = "rubygems" -> s.rubygems_data

WithTypeData(s, pkg_type, d) ==
    CASE pkg_type = "npm" -> [s EXCEPT !.npm_data = d]
      [] pkg_type = "pip" -> [s EXCEPT !.pip_data = d]
      [] pkg_type = "yarn" -> [s EXCEPT !.yarn_data = d]
      [] pkg_type = "rubygems" -> [s EXCEPT !.rubygems_data = d]

RECURSIVE ModulesUpTo(_, _)
\* {module.name: module for module in packages[:n] if module.type == "gomod"}:
\* a name keeps the place of its first module and the value of its last
ModulesUpTo(pkgs, n) ==
    IF n = 0 THEN <<>>
    ELSE LET m == ModulesUpTo(pkgs, n - 1)
         IN  IF pkgs[n].type = "gomod" THEN Put(m, pkgs[n].name, n) ELSE m

\* ContentManifest.go_modules_by_name, a cached_property: computed at the first
\* access and kept; a module is held as its index in packages
GoModulesByName(s) ==
    IF s.go_modules_by_name.cached THEN s
    ELSE [s EXCEPT !.go_modules_by_name =
              [cached |-> TRUE, map |-> ModulesUpTo(s.packages, Len(s.packages))]]

\* the component of a dependency: {"type", "name", "purl"} and "version" when truthy
DepComponent(dependency, purl) ==
    << KV("type", "library"), KV("name", dependency.name), KV("purl", purl) >>
        \o (IF Truthy(dependency.version) THEN <<KV("version", dependency.version)>> ELSE <<>>)

\* a variant that puts a component at the head of the list
EmitFirst(s, type, icm, component) ==
    IF type = "icm" THEN Ret(icm)
    ELSE IF type = "sbom"
         THEN Ret([s EXCEPT !.sbom_components = <<component>> \o @])
    ELSE Ret(s)

\* the end of a process_* method: the entry's list or the component list grows
Emit(s, type, icm, component) ==
    IF type = "icm" THEN Ret(icm)
    ELSE IF type = "sbom"
         THEN Ret([s EXCEPT !.sbom_components = Append(@, component)])
    ELSE Ret(s)

\* a variant that puts the relative path into the purl of every local dependency
ProcessGomodAlwaysRelative(s, i, j, type) ==
    LET package == s.packages[i]
        dependency == package.dependencies[j]
        local == IsLocal(dependency.version)
        dep_normpath == Normpath(package.name \o dependency.version.path)
        match == IF local THEN MatchParentModule(dep_normpath, KeySet(s.gomod_data))
                 ELSE [found |-> TRUE, name |-> package.name]
        relpath == IF local THEN SomePath(RelativeTo(dep_normpath, match.name)) ELSE NoPath
    IN  IF dependency.type # "gomod" THEN Ret(s)
        ELSE IF local /\ ~match.found THEN Raise(s, "TypeError")
        ELSE IF ~HasKey(s.gomod_data, match.name) THEN Raise(s, "KeyError")
        ELSE LET parent_purl == Get(Get(s.gomod_data, match.name), "purl")
                 r == ToPurl(dependency, relpath)
                 dep_purl == ReplaceParentPurlPlaceholder(r.purl, parent_purl)
             IN  IF ~r.ok THEN Raise(s, r.err)
                 ELSE IF type = "icm" /\ ~HasKey(s.gomod_data, package.name)
                      THEN Raise(s, "KeyError")
                 ELSE Emit(s, type,
                           [s EXCEPT !.gomod_data =
                                AppendTo(@, package.name, "dependencies",
                                         <<KV("purl", dep_purl)>>)],
                           DepComponent(dependency, dep_purl))

\* a variant that passes over a dependency when the working map of the Go
\* modules has no entry to read or to append to
ProcessGomodForgiving(s, i, j, type) ==
    LET package == s.packages[i]
        dependency == package.dependencies[j]
        local == IsLocal(dependency.version)
        dep_normpath == Normpath(package.name \o dependency.version.path)
        match == IF local THEN MatchParentModule(dep_normpath, KeySet(s.gomod_data))
                 ELSE [found |-> TRUE, name |-> package.name]
        needs_relpath == local /\ ~HasKey(s.gomod_data, dependency.name)
        relpath == IF needs_relpath
                   THEN SomePath(RelativeTo(dep_normpath, match.name))
                   ELSE NoPath
    IN  IF dependency.type # "gomod" THEN Ret(s)
        ELSE IF ~match.found \/ ~HasKey(s.gomod_data, match.name) THEN Ret(s)
        ELSE LET parent_purl == Get(Get(s.gomod_data, match.name), "purl")
                 r == ToPurl(dependency, relpath)
                 dep_purl == ReplaceParentPurlPlaceholder(r.purl, parent_purl)
             IN  IF ~r.ok THEN Raise(s, r.err)
                 ELSE IF type = "icm" /\ ~HasKey(s.gomod_data, package.name)
                      THEN Ret(s)
                 ELSE Emit(s, type,
                           [s EXCEPT !.gomod_data =
                                AppendTo(@, package.name, "dependencies",
                                         <<KV("purl", dep_purl)>>)],
                           DepComponent(dependency, dep_purl))

\* ContentManifest.process_gomod(package, dependency, type)
ProcessGomod(s, i, j, type) ==
    LET package == s.packages[i]
        dependency == package.dependencies[j]
        local == IsLocal(dependency.version)
        dep_normpath == Normpath(package.name \o dependency.version.path)
        match == IF local THEN MatchParentModule(dep_normpath, KeySet(s.gomod_data))
                 ELSE [found |-> TRUE, name |-> package.name]
        needs_relpath == local /\ ~HasKey(s.gomod_data, dependency.name)
        relpath == IF needs_relpath
                   THEN SomePath(RelativeTo(dep_normpath, match.name))
                   ELSE NoPath
    IN  IF dependency.type # "gomod" THEN Ret(s)
        ELSE IF needs_relpath /\ ~match.found THEN Raise(s, "TypeError")
        ELSE IF ~match.found \/ ~HasKey(s.gomod_data, match.name) THEN Raise(s, "KeyError")
        ELSE LET parent_purl == Get(Get(s.gomod_data, match.name), "purl")
                 r == ToPurl(dependency, relpath)
                 dep_purl == ReplaceParentPurlPlaceholder(r.purl, parent_purl)
             IN  IF ~r.ok THEN Raise(s, r.err)
                 ELSE IF type = "icm" /\ ~HasKey(s.gomod_data, package.name)
                      THEN Raise(s, "KeyError")
                 ELSE Emit(s, type,
                           [s EXCEPT !.gomod_data =
                                AppendTo(@, package.name, "dependencies",
                                         <<KV("purl", dep_purl)>>)],
                           DepComponent(dependency, dep_purl))

\* a variant that assigns the version to the owning package
SetPackageVersion(s, i, j, version) ==
    [s EXCEPT !.packages[i].version = version]

\* the assignment dependency.version = modules[dep_module_name].version
SetDependencyVersion(s, i, j, version) ==
    [s EXCEPT !.packages[i].dependencies[j].version = version]

\* a variant that reads the purl off the dependency before the assignment
PurlBeforeModuleVersion(s, i, j, version) ==
    LET r == ToPurl(s.packages[i].dependencies[j], NoPath)
    IN  [self |-> SetDependencyVersion(s, i, j, version), purl |-> r.purl, err |-> r.err]

\* _get_local_go_package_dep_purl, lines 171-173: the dependency takes the
\* version of its module and to_purl reads the dependency after that
PurlOfModuleVersion(s, i, j, version) ==
    LET s2 == SetDependencyVersion(s, i, j, version)
        r == ToPurl(s2.packages[i].dependencies[j], NoPath)
    IN  [self |-> s2, purl |-> r.purl, err |-> r.err]

\* Package.__repr__
PackageRepr(p) ==
    "<Package name=" \o PathText(p.name) \o ", type=" \o p.type
        \o ", version=" \o VersionText(p.version) \o ">"

\* the ValueError of line 165
InvalidLocalVersion(dependency) ==
    "ValueError: " \o PackageRepr(dependency)
        \o " has an invalid version for a local dependency"

\* the RuntimeError of lines 179 and 185
NoParentGoModule(name) ==
    "RuntimeError: Could not find parent Go module for package: " \o PathText(name)

\* a variant that looks for the module of the package before the module of
\* the dependency's name
GetLocalGoPackageDepPurlParentFirst(s, i, j) ==
    LET package == s.packages[i]
        dependency == package.dependencies[j]
        s1 == GoModulesByName(s)
        modules == s1.go_modules_by_name.map
        dep_module == MatchParentModule(dependency.name, KeySet(modules))
        package_module == MatchParentModule(package.name, KeySet(modules))
        dep_normpath == Normpath(package_module.name \o dependency.version.path)
        owner == MatchParentModule(dep_normpath, KeySet(modules))
    IN  IF ~IsLocal(dependency.version)
        THEN [self |-> s, purl |-> <<>>, err |-> InvalidLocalVersion(dependency)]
        ELSE IF ~package_module.found
        THEN [self |-> s1, purl |-> <<>>, err |-> NoParentGoModule(package.name)]
        ELSE IF dep_module.found
        THEN PurlOfModuleVersion(s1, i, j, s1.packages[Get(modules, dep_module.name)].version)
        ELSE IF ~owner.found
        THEN [self |-> s1, purl |-> <<>>, err |-> NoParentGoModule(dep_normpath)]
        ELSE IF ~HasKey(s1.gomod_data, owner.name)
        THEN [self |-> s1, purl |-> <<>>, err |-> "KeyError"]
        ELSE LET parent_purl == Get(Get(s1.gomod_data, owner.name), "purl")
                 r == ToPurl(dependency, SomePath(RelativeTo(dep_normpath, owner.name)))
             IN  [self |-> s1,
                  purl |-> ReplaceParentPurlPlaceholder(r.purl, parent_purl),
                  err |-> r.err]

\* a variant that never looks for a module by the dependency's name
GetLocalGoPackageDepPurlByPath(s, i, j) ==
    LET package == s.packages[i]
        dependency == package.dependencies[j]
        s1 == GoModulesByName(s)
        modules == s1.go_modules_by_name.map
        package_module == MatchParentModule(package.name, KeySet(modules))
        dep_normpath == Normpath(package_module.name \o dependency.version.path)
        owner == MatchParentModule(dep_normpath, KeySet(modules))
    IN  IF ~IsLocal(dependency.version)
        THEN [self |-> s, purl |-> <<>>, err |-> InvalidLocalVersion(dependency)]
        ELSE IF ~package_module.found
        THEN [self |-> s1, purl |-> <<>>, err |-> NoParentGoModule(package.name)]
        ELSE IF ~owner.found
        THEN [self |-> s1, purl |-> <<>>, err |-> NoParentGoModule(dep_normpath)]
        ELSE IF ~HasKey(s1.gomod_data, owner.name)
        THEN [self |-> s1, purl |-> <<>>, err |-> "KeyError"]
        ELSE LET parent_purl == Get(Get(s1.gomod_data, owner.name), "purl")
                 r == ToPurl(dependency, SomePath(RelativeTo(dep_normpath, owner.name)))
             IN  [self |-> s1,
                  purl |-> ReplaceParentPurlPlaceholder(r.purl, parent_purl),
                  err |-> r.err]

\* ContentManifest._get_local_go_package_dep_purl(package, dependency):
\* the instance after it, and the purl or the exception
GetLocalGoPackageDepPurl(s, i, j) ==
    LET package == s.packages[i]
        dependency == package.dependencies[j]
        s1 == GoModulesByName(s)
        modules == s1.go_modules_by_name.map
        dep_module == MatchParentModule(dependency.name, KeySet(modules))
        package_module == MatchParentModule(package.name, KeySet(modules))
        dep_normpath == Normpath(package_module.name \o dependency.version.path)
        owner == MatchParentModule(dep_normpath, KeySet(modules))
    IN  IF ~IsLocal(dependency.version)
        THEN [self |-> s, purl |-> <<>>, err |-> InvalidLocalVersion(dependency)]
        ELSE IF dep_module.found
        THEN PurlOfModuleVersion(s1, i, j, s1.packages[Get(modules, dep_module.name)].version)
        ELSE IF ~package_module.found
        THEN [self |-> s1, purl |-> <<>>, err |-> NoParentGoModule(package.name)]
        ELSE IF ~owner.found
        THEN [self |-> s1, purl |-> <<>>, err |-> NoParentGoModule(dep_normpath)]
        ELSE IF ~HasKey(s1.gomod_data, owner.name)
        THEN [self |-> s1, purl |-> <<>>, err |-> "KeyError"]
        ELSE LET parent_purl == Get(Get(s1.gomod_data, owner.name), "purl")
                 r == ToPurl(dependency, SomePath(RelativeTo(dep_normpath, owner.name)))
             IN  [self |-> s1,
                  purl |-> ReplaceParentPurlPlaceholder(r.purl, parent_purl),
                  err |-> r.err]

\* ContentManifest.process_go_package(package, dependency, type)
ProcessGoPackage(s, i, j, type) ==
    LET package == s.packages[i]
        dependency == package.dependencies[j]
        r == IF IsLocal(dependency.version)
             THEN GetLocalGoPackageDepPurl(s, i, j)
             ELSE LET p == ToPurl(dependency, NoPath)
                  IN  [self |-> s, purl |-> p.purl, err |-> p.err]
        s1 == r.self
    IN  IF dependency.type # "go-package" THEN Ret(s)
        ELSE IF r.err # "" THEN Raise(s1, r.err)
        ELSE IF type = "icm" /\ ~HasKey(s1.gopkg_data, PackageId(package))
             THEN Raise(s1, "KeyError")
        ELSE Emit(s1, type,
                  [s1 EXCEPT !.gopkg_data =
                       AppendTo(@, PackageId(package), "dependencies",
                                <<KV("purl", r.purl)>>)],
                  DepComponent(s1.packages[i].dependencies[j], r.purl))

\* a variant that appends every dependency, dev or not, to both lists
ProcessStandardPackageAllDeps(s, pkg_type, i, j) ==
    LET r == ToPurl(s.packages[i].dependencies[j], NoPath)
        key == PackageId(s.packages[i])
    IN  IF ~r.ok THEN Raise(s, r.err)
        ELSE IF ~HasKey(TypeData(s, pkg_type), key) THEN Raise(s, "KeyError")
        ELSE Ret(WithTypeData(s, pkg_type,
                              AppendTo(AppendTo(TypeData(s, pkg_type), key, "sources",
                                                <<KV("purl", r.purl)>>),
                                       key, "dependencies", <<KV("purl", r.purl)>>)))

\* a variant that leaves out a dependency to_purl has no purl for
ProcessStandardPackageLenient(s, pkg_type, i, j) ==
    LET package == s.packages[i]
        dependency == package.dependencies[j]
        r == ToPurl(dependency, NoPath)
        icm_dependency == <<KV("purl", r.purl)>>
        key == PackageId(package)
        with_source == AppendTo(TypeData(s, pkg_type), key, "sources", icm_dependency)
    IN  IF ~r.ok THEN Ret(s)
        ELSE IF ~HasKey(TypeData(s, pkg_type), key) THEN Raise(s, "KeyError")
        ELSE IF ~dependency.dev
             THEN Ret(WithTypeData(s, pkg_type,
                                   AppendTo(with_source, key, "dependencies", icm_dependency)))
        ELSE Ret(WithTypeData(s, pkg_type, with_source))

\* ContentManifest._process_standard_package(pkg_type, package, dependency)
ProcessStandardPackage(s, pkg_type, i, j) ==
    LET package == s.packages[i]
        dependency == package.dependencies[j]
        r == ToPurl(dependency, NoPath)
        icm_dependency == <<KV("purl", r.purl)>>
        key == PackageId(package)
        with_source == AppendTo(TypeData(s, pkg_type), key, "sources", icm_dependency)
    IN  IF ~r.ok THEN Raise(s, r.err)
        ELSE IF ~HasKey(TypeData(s, pkg_type), key) THEN Raise(s, "KeyError")
        ELSE IF ~dependency.dev
             THEN Ret(WithTypeData(s, pkg_type,
                                   AppendTo(with_source, key, "dependencies", icm_dependency)))
        ELSE Ret(WithTypeData(s, pkg_type, with_source))

\* a variant that leaves the version out of the component
ProcessStandardPackageSbomBare(s, i, j) ==
    LET dependency == s.packages[i].dependencies[j]
        r == ToPurl(dependency, NoPath)
    IN  IF ~r.ok THEN Raise(s, r.err)
        ELSE Ret([s EXCEPT !.sbom_components =
                      Append(@, << KV("type", "library"), KV("name", dependency.name),
                                   KV("purl", r.purl) >>)])

\* ContentManifest._process_standard_package_sbom(dependency)
ProcessStandardPackageSbom(s, i, j) ==
    LET dependency == s.packages[i].dependencies[j]
        r == ToPurl(dependency, NoPath)
    IN  IF ~r.ok THEN Raise(s, r.err)
        ELSE Ret([s EXCEPT !.sbom_components = Append(@, DepComponent(dependency, r.purl))])

\* a variant without the test of the dependency's type
ProcessStandardAnyType(s, pkg_type, i, j, type) ==
    IF type = "icm" THEN ProcessStandardPackage(s, pkg_type, i, j)
    ELSE IF type = "sbom" THEN ProcessStandardPackageSbom(s, i, j)
    ELSE Ret(s)

\* process_npm_package, process_pip_package, process_yarn_package
ProcessStandard(s, pkg_type, i, j, type) ==
    IF s.packages[i].dependencies[j].type # pkg_type THEN Ret(s)
    ELSE IF type = "icm" THEN ProcessStandardPackage(s, pkg_type, i, j)
    ELSE IF type = "sbom" THEN ProcessStandardPackageSbom(s, i, j)
    ELSE Ret(s)

\* a variant that keeps a dev dependency out of `sources`
ProcessRubygemsPackageNotDev(s, request, i, j, type) ==
    LET package == s.packages[i]
        dependency == package.dependencies[j]
        parent_purl == ToVcsPurl(RepoName(request.repo), request.repo, request.ref)
        r == ToPurl(dependency, PathArg(package.path))
        dep_purl == ReplaceParentPurlPlaceholder(r.purl, parent_purl)
        icm_dependency == <<KV("purl", dep_purl)>>
        key == PackageId(package)
    IN  IF dependency.type # "rubygems" THEN Ret(s)
        ELSE IF ~r.ok THEN Raise(s, r.err)
        ELSE IF type = "icm" /\ ~HasKey(s.rubygems_data, key) THEN Raise(s, "KeyError")
        ELSE Emit(s, type,
                  [s EXCEPT !.rubygems_data =
                       AppendTo(IF dependency.dev THEN @
                                ELSE AppendTo(@, key, "sources", icm_dependency),
                                key, "dependencies", icm_dependency)],
                  DepComponent(dependency, dep_purl))

\* ContentManifest.process_rubygems_package(package, dependency, type)
ProcessRubygemsPackage(s, request, i, j, type) ==
    LET package == s.packages[i]
        dependency == package.dependencies[j]
        parent_purl == ToVcsPurl(RepoName(request.repo), request.repo, request.ref)
        r == ToPurl(dependency, PathArg(package.path))
        dep_purl == ReplaceParentPurlPlaceholder(r.purl, parent_purl)
        icm_dependency == <<KV("purl", dep_purl)>>
        key == PackageId(package)
    IN  IF dependency.type # "rubygems" THEN Ret(s)
        ELSE IF ~r.ok THEN Raise(s, r.err)
        ELSE IF type = "icm" /\ ~HasKey(s.rubygems_data, key) THEN Raise(s, "KeyError")
        ELSE Emit(s, type,
                  [s EXCEPT !.rubygems_data =
                       AppendTo(AppendTo(@, key, "sources", icm_dependency),
                                key, "dependencies", icm_dependency)],
                  DepComponent(dependency, dep_purl))

\* a variant that skips a dependency equal to one that a package before the
\* owning one lists
ProcessDependencyOnce(s, request, i, j, type) ==
    IF \E h \in 1..(i - 1) : \E m \in 1..Len(s.packages[h].dependencies) :
           PackageEq(s.packages[h].dependencies[m], s.packages[i].dependencies[j])
    THEN Ret(s)
    ELSE LET t == s.packages[i].type
         IN  CASE t = "go-package" -> ProcessGoPackage(s, i, j, type)
               [] t = "gomod" -> ProcessGomod(s, i, j, type)
               [] t \in {"npm", "pip", "yarn"} -> ProcessStandard(s, t, i, j, type)
               [] t = "rubygems" -> ProcessRubygemsPackage(s, request, i, j, type)
               [] OTHER -> Ret(s)

\* a variant that hands the dependencies of a package of any other type to
\* the npm processor
ProcessDependencyAnyOwner(s, request, i, j, type) ==
    LET t == s.packages[i].type
    IN  CASE t = "go-package" -> ProcessGoPackage(s, i, j, type)
          [] t = "gomod" -> ProcessGomod(s, i, j, type)
          [] t \in {"npm", "pip", "yarn"} -> ProcessStandard(s, t, i, j, type)
          [] t = "rubygems" -> ProcessRubygemsPackage(s, request, i, j, type)
          [] OTHER -> ProcessStandard(s, "npm", i, j, type)

\* a variant that appends the dependencies of a git-submodule to its entry
ProcessDependencyOfSubmodule(s, request, i, j, type) ==
    LET t == s.packages[i].type
    IN  CASE t = "go-package" -> ProcessGoPackage(s, i, j, type)
          [] t = "gomod" -> ProcessGomod(s, i, j, type)
          [] t \in {"npm", "pip", "yarn"} -> ProcessStandard(s, t, i, j, type)
          [] t = "rubygems" -> ProcessRubygemsPackage(s, request, i, j, type)
          [] t = "git-submodule" /\ type = "icm"
                 /\ HasKey(s.gitsubmodule_data, PackageId(s.packages[i])) ->
               Ret([s EXCEPT !.gitsubmodule_data =
                        AppendTo(@, PackageId(s.packages[i]), "dependencies",
                                 <<KV("purl", <<"pkg:", "submodule", "/", "dependency">>)>>)])
          [] OTHER -> Ret(s)

\* the body of the second loop of to_json and of sbom_components_list: the
\* dispatch on the owning package's type
ProcessDependency(s, request, i, j, type) ==
    LET t == s.packages[i].type
    IN  CASE t = "go-package" -> ProcessGoPackage(s, i, j, type)
          [] t = "gomod" -> ProcessGomod(s, i, j, type)
          [] t \in {"npm", "pip", "yarn"} -> ProcessStandard(s, t, i, j, type)
          [] t = "rubygems" -> ProcessRubygemsPackage(s, request, i, j, type)
          [] OTHER -> Ret(s)

(***************************************************************************)
(* to_json and sbom_components_list, statement by statement.               *)
(***************************************************************************)
\* a variant that keeps the npm, pip, yarn and rubygems maps of the call before
ToJsonResetKeeping(s) ==
    [s EXCEPT !.gopkg_data = <<>>, !.gomod_data = <<>>, !.gitsubmodule_data = <<>>,
              !.aliased = {}, !.purl_calls = <<>>]

\* to_json, lines 326-332: every working map is a new empty dict
ToJsonReset(s) ==
    [s EXCEPT !.gopkg_data = <<>>, !.gomod_data = <<>>, !.npm_data = <<>>,
              !.pip_data = <<>>, !.yarn_data = <<>>, !.rubygems_data = <<>>,
              !.gitsubmodule_data = <<>>, !.aliased = {}, !.purl_calls = <<>>]

\* a variant whose entry starts with the package itself among its sources
SeedEntryWithSelf(purl) ==
    << KV("purl", purl), KV("dependencies", <<>>), KV("sources", <<<<KV("purl", purl)>>>>) >>

\* {"purl": purl, "dependencies": [], "sources": []}
SeedEntry(purl) == << KV("purl", purl), KV("dependencies", <<>>), KV("sources", <<>>) >>

\* the body of the first loop of to_json, for packages[i]
ToJsonSeed(s, request, i) ==
    LET package == s.packages[i]
        t == package.type
        r == ToTopLevelPurl(package, request, package.path)
        s1 == [s EXCEPT !.purl_calls = Append(@, [package |-> i, subpath |-> package.path])]
        key == PackageId(package)
    IN  IF t \notin {"go-package", "gomod", "npm", "pip", "yarn", "rubygems", "git-submodule"}
        THEN Ret([s EXCEPT !.log = Append(@, [level |-> "debug", about |-> <<t>>])])
        ELSE IF ~r.ok THEN Raise(s1, r.err)
        ELSE CASE t = "go-package" ->
                    Ret([s1 EXCEPT !.gopkg_data =
                            SetDefault(@, key, <<KV("name", package.name)>> \o SeedEntry(r.purl))])
               [] t = "gomod" ->
                    Ret([s1 EXCEPT !.gomod_data =
                            SetDefault(@, package.name,
                                       <<KV("purl", r.purl), KV("dependencies", <<>>)>>)])
               [] t = "git-submodule" ->
                    Ret([s1 EXCEPT !.gitsubmodule_data = SetDefault(@, key, SeedEntry(r.purl))])
               [] OTHER ->
                    Ret(WithTypeData(s1, t, SetDefault(TypeData(s1, t), key, SeedEntry(r.purl))))

\* a variant that looks for a module of the package's own name only
SourceModuleOfSameName(s, pkg_name) ==
    [found |-> HasKey(s.gomod_data, pkg_name), name |-> pkg_name]

\* the module set_go_package_sources picks for a package name: the module of
\* that name, or else its longest parent
SourceModule(s, pkg_name) ==
    IF HasKey(s.gomod_data, pkg_name) THEN [found |-> TRUE, name |-> pkg_name]
    ELSE MatchParentModule(pkg_name, KeySet(s.gomod_data))

\* a variant that leaves the entries of _gopkg_data as the loops left them
KeepNames(s, n) == s

RECURSIVE SetSourcesFrom(_, _)
\* the loop of set_go_package_sources from the n-th entry of _gopkg_data on
SetSourcesFrom(s, n) ==
    IF n > Len(s.gopkg_data) THEN s
    ELSE LET pkg_data == s.gopkg_data[n].v
             module == SourceModule(s, Get(pkg_data, "name"))
             popped == Without(pkg_data, "name")
         IN  IF module.found
             THEN SetSourcesFrom(
                      [s EXCEPT !.gopkg_data[n].v =
                                    Put(popped, "sources",
                                        Get(Get(s.gomod_data, module.name), "dependencies")),
                                !.aliased = @ \cup {module.name}],
                      n + 1)
             ELSE SetSourcesFrom(
                      [s EXCEPT !.gopkg_data[n].v = popped,
                                !.log = Append(@, [level |-> "warning",
                                                   about |-> Get(pkg_data, "purl")])],
                      n + 1)

\* ContentManifest.set_go_package_sources()
SetGoPackageSources(s) == SetSourcesFrom(s, 1)

\* to_json, lines 377-384: the list handed to generate_icm
TopLevelPackages(s) ==
    Values(s.gopkg_data) \o Values(s.npm_data) \o Values(s.pip_data)
        \o Values(s.yarn_data) \o Values(s.rubygems_data) \o Values(s.gitsubmodule_data)

\* a working map whose entries, the very dicts of image_contents, were sorted
SortedData(d) == [n \in 1..Len(d) |-> KV(d[n].k, SortEntry(d[n].v))]

\* the instance after deep_sort_icm sorted the entries in place: a module's
\* dependencies list is sorted when a go-package entry shares it as its sources
SortedInPlace(s) ==
    [s EXCEPT !.gopkg_data = SortedData(@), !.npm_data = SortedData(@),
              !.pip_data = SortedData(@), !.yarn_data = SortedData(@),
              !.rubygems_data = SortedData(@), !.gitsubmodule_data = SortedData(@),
              !.gomod_data =
                  [n \in 1..Len(@) |->
                      IF @[n].k \in s.aliased
                      THEN KV(@[n].k, Put(@[n].v, "dependencies",
                                          SortPurlList(Get(@[n].v, "dependencies"))))
                      ELSE @[n]]]

\* sbom_components_list, lines 407-408
SbomReset(s) ==
    [s EXCEPT !.sbom_components = <<>>, !.gomod_data = <<>>, !.aliased = {},
              !.purl_calls = <<>>]

\* the body of the first loop of sbom_components_list, for packages[i]
SbomSeed(s, request, i) ==
    LET package == s.packages[i]
        t == package.type
        component == << KV("type", "library"), KV("name", package.name) >>
                         \o (IF Truthy(package.version)
                             THEN <<KV("version", package.version)>> ELSE <<>>)
        r == ToTopLevelPurl(package, request, package.path)
        s1 == [s EXCEPT !.purl_calls = Append(@, [package |-> i, subpath |-> package.path])]
        s2 == IF t = "gomod"
              THEN [s1 EXCEPT !.gomod_data =
                        SetDefault(@, package.name,
                                   <<KV("purl", r.purl), KV("dependencies", <<>>)>>)]
              ELSE s1
    IN  IF t \notin {"go-package", "gomod", "npm", "pip", "yarn", "rubygems", "git-submodule"}
        THEN Ret([s EXCEPT !.log = Append(@, [level |-> "debug", about |-> <<t>>])])
        ELSE IF ~r.ok THEN Raise(s1, r.err)
        ELSE Ret([s2 EXCEPT !.sbom_components = Append(@, Put(component, "purl", r.purl))])

RECURSIVE AdvanceTo(_, _, _)
\* the place of the two nested loops at or after dependency j of package i:
\* <<Len(pkgs) + 1, 1>> when the loops are over
AdvanceTo(pkgs, i, j) ==
    IF i > Len(pkgs) THEN <<i, 1>>
    ELSE IF j <= Len(pkgs[i].dependencies) THEN <<i, j>>
    ELSE AdvanceTo(pkgs, i + 1, 1)

RECURSIVE ToJsonSeedFrom(_, _, _)
\* the first loop of to_json from packages[i] on, up to the first exception
ToJsonSeedFrom(s, request, i) ==
    IF i > Len(s.packages) THEN Ret(s)
    ELSE LET r == ToJsonSeed(s, request, i)
         IN  IF r.err # "" THEN r ELSE ToJsonSeedFrom(r.self, request, i + 1)

RECURSIVE SbomSeedFrom(_, _, _)
\* the first loop of sbom_components_list from packages[i] on
SbomSeedFrom(s, request, i) ==
    IF i > Len(s.packages) THEN Ret(s)
    ELSE LET r == SbomSeed(s, request, i)
         IN  IF r.err # "" THEN r ELSE SbomSeedFrom(r.self, request, i + 1)

RECURSIVE DependenciesFrom(_, _, _, _, _)
\* the two nested loops over the dependencies from dependency j of packages[i] on
DependenciesFrom(s, request, i, j, type) ==
    LET pos == AdvanceTo(s.packages, i, j)
    IN  IF pos[1] > Len(s.packages) THEN Ret(s)
        ELSE LET r == ProcessDependency(s, request, pos[1], pos[2], type)
             IN  IF r.err # "" THEN r
                 ELSE DependenciesFrom(r.self, request, pos[1], pos[2] + 1, type)

\* a finished call: what it was, the object handed to generate_icm (arg, and
\* after: the same object when the call was over), and what the call returned
Returned(op, arg, after, value) ==
    [op |-> op, arg |-> arg, after |-> after, status |-> "returned", err |-> "",
     value |-> value]
NoArgument == [tag |-> "none", val |-> <<>>]
Raised(op, err) ==
    [op |-> op, arg |-> NoArgument, after |-> NoArgument, status |-> "raised",
     err |-> err, value |-> <<>>]

\* ContentManifest.to_json() as one call on the instance s: the instance after
\* it and what the call returned or raised
ToJson(s, request) ==
    LET seeded == ToJsonSeedFrom(ToJsonReset(s), request, 1)
        looped == IF seeded.err # "" THEN seeded
                  ELSE DependenciesFrom(seeded.self, request, 1, 1, "icm")
        done == SetGoPackageSources(looped.self)
        top_level_packages == [tag |-> "list", val |-> TopLevelPackages(done)]
    IN  IF looped.err # ""
        THEN [self |-> looped.self, result |-> Raised("to_json", looped.err)]
        ELSE [self |-> SortedInPlace(done),
              result |-> Returned("to_json", top_level_packages,
                                  SortValue(top_level_packages),
                                  GenerateIcm(BASE_ICM, top_level_packages).icm)]

\* ContentManifest.sbom_components_list() as one call on the instance s
SbomComponentsList(s, request) ==
    LET seeded == SbomSeedFrom(SbomReset(s), request, 1)
        looped == IF seeded.err # "" THEN seeded
                  ELSE DependenciesFrom(seeded.self, request, 1, 1, "sbom")
    IN  IF looped.err # ""
        THEN [self |-> looped.self, result |-> Raised("sbom_components_list", looped.err)]
        ELSE [self |-> looped.self,
              result |-> Returned("sbom_components_list", NoArgument, NoArgument,
                                  looped.self.sbom_components)]

(***************************************************************************)
(* The inputs: the request and the packages a ContentManifest is built     *)
(* over, as Package.from_json builds them.                                 *)
(***************************************************************************)
DefaultRequest ==
    [repo |-> [host |-> "github", path |-> <<"namespace", "repo">>], ref |-> "ref"]

Root == <<"org", "proj">>
Foo == <<"org", "proj", "foo">>

\* a dependency: a Package without dependencies and path
Dep(name, type, version, dev) == Package(name, type, version, dev, <<>>, <<>>)

Take(seq, n) == SubSeq(seq, 1, IF Len(seq) < n THEN Len(seq) ELSE n)

\* a top-level package, its dependency list cut at MaxDeps
Top(name, type, version, path, dependencies) ==
    Package(name, type, version, FALSE, path, Take(dependencies, MaxDeps))

Catalogue ==
    { Top(Root, "gomod", Plain("v1"), <<>>,
          << Dep(<<"other", "lib">>, "gomod", Plain("v3"), FALSE),
             Dep(Foo, "gomod", Local(<<"foo">>), FALSE),
             Dep(<<"other", "bar">>, "gomod", Local(<<"vendor", "bar">>), FALSE) >>),
      Top(Foo, "gomod", Plain("v2"), <<>>,
          << Dep(Root, "gomod", Local(<<"..">>), FALSE) >>),
      Top(<<"lib">>, "gomod", NoVersion, <<>>, <<>>),
      Top(Root, "go-package", Plain("v1"), <<>>,
          << Dep(<<"org", "proj", "foo", "pkg">>, "go-package", Local(<<"foo", "pkg">>), FALSE),
             Dep(<<"fmt">>, "go-package", EmptyVersion, FALSE),
             Dep(<<"other", "lib", "pkg">>, "go-package", Local(<<"vendor", "lib">>), FALSE) >>),
      Top(Foo, "go-package", Plain("v2"), <<"foo">>,
          << Dep(<<"other", "lib", "pkg">>, "go-package", Local(<<"..", "vendor">>), FALSE) >>),
      Top(<<"grc">>, "npm", Plain("v1"), <<>>,
          << Dep(<<"dep-b">>, "npm", Plain("v2"), TRUE),
             Dep(<<"dep-a">>, "npm", Plain("v1"), FALSE),
             Dep(<<"py_dep">>, "pip", Plain("v1"), FALSE) >>),
      Top(<<"grc">>, "npm", Plain("v1"), <<"sub">>,
          << Dep(<<"dep-c">>, "npm", Forge(<<"github", "org", "dep-c">>, "c1"), FALSE) >>),
      Top(<<"bad">>, "npm", Plain("v1"), <<>>,
          << Dep(<<"dep-a">>, "npm", Plain("v1"), FALSE),
             Dep(<<"dep-b">>, "npm", UnknownProtocol, FALSE) >>),
      Top(<<"requests">>, "pip", Plain("v1"), <<>>,
          << Dep(<<"py_dep">>, "pip", Plain("v1"), FALSE),
             Dep(<<"dep-a">>, "npm", Plain("v1"), FALSE),
             Dep(<<"dep-c">>, "pip", Forge(<<"github", "org", "dep-c">>, "c1"), TRUE) >>),
      Top(<<"grc">>, "yarn", EmptyVersion, <<"sub">>,
          << Dep(<<"dep-c">>, "yarn", Plain("v1"), TRUE),
             Dep(<<"dep-a">>, "yarn", EmptyVersion, FALSE) >>),
      Top(<<"zync">>, "rubygems", Plain("v1"), <<"sub">>,
          << Dep(<<"lib">>, "rubygems", Local(<<"vendor", "lib">>), FALSE),
             Dep(<<"bar">>, "rubygems", Plain("v1"), TRUE) >>),
      Top(<<"tour">>, "git-submodule", Forge(<<"github", "testrepo", "tour">>, "c1"), <<"sub">>,
          << Dep(<<"dep-a">>, "npm", Plain("v1"), FALSE) >>),
      Top(<<"bar">>, "cargo", Plain("v1"), <<>>,
          << Dep(<<"dep-a">>, "npm", Plain("v1"), FALSE) >>),
      Top(<<"lib", "sub">>, "go-package", Plain("v1"), <<"sub">>,
          << Dep(<<"lib", "pkg">>, "go-package", Local(<<"..", "pkg">>), FALSE) >>),
      Top(<<"other", "lib", "pkg">>, "go-package", Plain("v3"), <<>>, <<>>),
      Top(<<"foo">>, "npm", Plain("v2"), <<>>, <<>>),
      Top(<<"py_dep">>, "pip", Plain("v1"), <<"sub">>, <<>>),
      Top(<<"foo">>, "yarn", Plain("v2"), <<>>,
          << Dep(<<"odd">>, "yarn", BogusForge, FALSE) >>),
      Top(<<"gem">>, "rubygems", Plain("v2"), <<>>,
          << Dep(<<"lib">>, "rubygems", Local(<<"vendor", "lib">>), TRUE),
             Dep(<<"dep-a">>, "npm", Plain("v1"), FALSE) >>) }

\* every list of at most MaxPkgs packages of the catalogue
PackageLists == UNION {[1..n -> Catalogue] : n \in 0..MaxPkgs}

\* the Go packages of one repository: the nested modules org/proj,
\* org/proj/foo and org/proj/foo/pkg, the module org/pro beside them, and two
\* go-packages
GoCatalogue ==
    { Top(Root, "gomod", Plain("v1"), <<>>,
          << Dep(Foo, "gomod", Local(<<"vendor", "foo">>), FALSE),
             Dep(<<"other", "bar">>, "gomod", Local(<<"vendor", "bar">>), FALSE) >>),
      Top(Foo, "gomod", Plain("v2"), <<>>,
          << Dep(Root, "gomod", Local(<<"..">>), FALSE) >>),
      Top(<<"org", "proj", "foo", "pkg">>, "gomod", Plain("v3"), <<>>,
          << Dep(Root, "gomod", Local(<<"..", "..">>), FALSE),
             Dep(<<"other", "bar">>, "gomod", Local(<<"..", "vendor">>), FALSE) >>),
      Top(<<"org", "pro">>, "gomod", Plain("v1"), <<>>, <<>>),
      Top(<<"org", "proj", "foo", "pkg">>, "go-package", Plain("v3"), <<"foo", "pkg">>,
          << Dep(<<"org", "proj", "lib">>, "go-package", Local(<<"..", "..", "lib">>), FALSE),
             Dep(<<"other", "lib", "pkg">>, "go-package", Local(<<"..", "vendor">>), FALSE) >>),
      Top(Foo, "go-package", Plain("v2"), <<"foo">>,
          << Dep(<<"fmt">>, "go-package", EmptyVersion, FALSE),
             Dep(<<"org", "pro", "x">>, "go-package", Local(<<"..", "..", "pro", "x">>), FALSE) >>) }

\* every list of at most MaxGoPkgs packages of the Go catalogue
GoPackageLists == UNION {[1..n -> GoCatalogue] : n \in 0..MaxGoPkgs}

\* the arguments generate_icm is called with directly
IcmArguments ==
    << [tag |-> "none", val |-> <<>>],
      [tag |-> "list", val |-> <<>>],
      [tag |-> "str", val |-> "foobar"],
      [tag |-> "int", val |-> 42],
      [tag |-> "dict", val |-> <<KV("egg", "bacon")>>],
      [tag |-> "list",
       val |-> << << KV("purl", <<"pkg:", "npm", "/", "grc", "@", "v1">>),
                     KV("dependencies", << <<KV("purl", <<"pkg:", "npm", "/", "dep-b", "@", "v2">>)>>,
                                           <<KV("purl", <<"pkg:", "npm", "/", "dep-a", "@", "v1">>)>> >>),
                     KV("sources", <<>>) >>,
                  << KV("purl", <<"pkg:", "gem", "/", "zync", "@", "v1">>),
                     KV("dependencies", <<>>),
                     KV("sources", <<>>) >> >>] >>

\* the JSON objects Package.from_json is called with
RawDep == << KV("name", <<"dep">>), KV("type", "npm"), KV("version", Plain("v2")) >>

RawCatalogue ==
    << << KV("name", <<"grc">>), KV("type", "npm"), KV("version", Plain("v1")) >>,
       << KV("name", <<"grc">>), KV("type", "npm"), KV("version", Plain("v1")),
          KV("dev", TRUE), KV("path", <<"folder">>) >>,
       << KV("name", <<"grc">>), KV("type", "npm"), KV("version", Plain("v1")),
          KV("invalid-attribute", "some-value") >>,
       << KV("name", <<"grc">>), KV("type", "npm"), KV("version", Plain("v1")),
          KV("dependencies", << RawDep >>) >>,
       << KV("name", <<"zync">>), KV("type", "rubygems"), KV("version", NoVersion),
          KV("dependencies", <<>>), KV("path", <<"sub">>) >>,
       << KV("name", <<"top">>), KV("type", "yarn"), KV("version", Plain("v1")),
          KV("dependencies",
             << RawDep \o <<KV("dev", TRUE)>>,
                << KV("name", <<"mid">>), KV("type", "yarn"), KV("version", Plain("v3")),
                   KV("dependencies", << RawDep >>) >> >>) >>,
       << KV("name", <<"grc">>), KV("type", "npm") >>,
       << KV("name", <<"grc">>), KV("type", "npm"), KV("version", Plain("v1")),
          KV("dependencies", << RawDep, <<KV("name", <<"dep">>)>> >>) >> >>

\* every list of at most MaxRaw of them
RawLists ==
    {[n \in 1..Len(ix) |-> RawCatalogue[ix[n]]] :
         ix \in UNION {[1..m -> 1..Len(RawCatalogue)] : m \in 0..MaxRaw}}

\* the package a caller appends to the dependencies of another
ExtraName == <<"extra">>

(***************************************************************************)
(* The state: the inputs, the module-level template, the fields of the     *)
(* instance, the place of the running to_json call (jpc, ji, jj) and of    *)
(* the running sbom_components_list call (spc, si, sj), and what the calls *)
(* made so far returned.                                                   *)
(***************************************************************************)
VARIABLES
    given,              \* the package list the instance was built over, as built
    request,            \* self.request
    base_icm,           \* the module-level BASE_ICM
    packages,           \* self.packages, the Package objects as they are now
    gopkg_data,         \* self._gopkg_data
    gomod_data,         \* self._gomod_data
    npm_data,           \* self._npm_data
    pip_data,           \* self._pip_data
    yarn_data,          \* self._yarn_data
    rubygems_data,      \* self._rubygems_data
    gitsubmodule_data,  \* self._gitsubmodule_data
    sbom_components,    \* self._sbom_components
    go_modules_by_name, \* the cached property
    aliased,            \* the modules whose dependencies list go-package entries share
    log,                \* what went to flask.current_app.logger
    purl_calls,         \* the calls of to_top_level_purl made by the running call
    jpc, ji, jj,        \* to_json: "idle", "seed", "deps", "sources", "return"
    spc, si, sj,        \* sbom_components_list: "idle", "seed", "deps", "return"
    returned,           \* one record per finished call, oldest first
    raw,                \* the JSON objects handed to Package.from_json, in call order
    built,              \* what the calls of Package.from_json made so far returned
    heap,               \* the list objects: heap[a] is the list at address a
    other,              \* a second instance, and the place of the call running on it
    appended_to,        \* the places in built of the packages a caller appended to
    shared              \* the places in returned of the documents whose metadata is
                        \* the metadata object of BASE_ICM

vars ==
    << given, request, base_icm, packages, gopkg_data, gomod_data, npm_data,
       pip_data, yarn_data, rubygems_data, gitsubmodule_data, sbom_components,
       go_modules_by_name, aliased, log, purl_calls, jpc, ji, jj, spc, si, sj,
       returned, raw, built, heap, appended_to, other, shared >>

\* what Package.from_json and the callers of the instance work on
json_vars == <<raw, built, heap, appended_to, shared>>

\* the instance as the record the step operators work on
Self ==
    [packages |-> packages, gopkg_data |-> gopkg_data, gomod_data |-> gomod_data,
     npm_data |-> npm_data, pip_data |-> pip_data, yarn_data |-> yarn_data,
     rubygems_data |-> rubygems_data, gitsubmodule_data |-> gitsubmodule_data,
     sbom_components |-> sbom_components, go_modules_by_name |-> go_modules_by_name,
     aliased |-> aliased, log |-> log, purl_calls |-> purl_calls]

\* the instance becomes s
Install(s) ==
    /\ packages' = s.packages
    /\ gopkg_data' = s.gopkg_data
    /\ gomod_data' = s.gomod_data
    /\ npm_data' = s.npm_data
    /\ pip_data' = s.pip_data
    /\ yarn_data' = s.yarn_data
    /\ rubygems_data' = s.rubygems_data
    /\ gitsubmodule_data' = s.gitsubmodule_data
    /\ sbom_components' = s.sbom_components
    /\ go_modules_by_name' = s.go_modules_by_name
    /\ aliased' = s.aliased
    /\ log' = s.log
    /\ purl_calls' = s.purl_calls

\* ContentManifest.__init__(request, packages)
NewInstance(pkgs) ==
    [packages |-> pkgs, gopkg_data |-> <<>>, gomod_data |-> <<>>, npm_data |-> <<>>,
     pip_data |-> <<>>, yarn_data |-> <<>>, rubygems_data |-> <<>>,
     gitsubmodule_data |-> <<>>, sbom_components |-> <<>>,
     go_modules_by_name |-> [cached |-> FALSE, map |-> <<>>],
     aliased |-> {}, log |-> <<>>, purl_calls |-> <<>>]

\* the state after ContentManifest(request, given)
Constructed ==
    /\ request = DefaultRequest
    /\ base_icm = BASE_ICM
    /\ packages = NewInstance(given).packages
    /\ gopkg_data = NewInstance(given).gopkg_data
    /\ gomod_data = NewInstance(given).gomod_data
    /\ npm_data = NewInstance(given).npm_data
    /\ pip_data = NewInstance(given).pip_data
    /\ yarn_data = NewInstance(given).yarn_data
    /\ rubygems_data = NewInstance(given).rubygems_data
    /\ gitsubmodule_data = NewInstance(given).gitsubmodule_data
    /\ sbom_components = NewInstance(given).sbom_components
    /\ go_modules_by_name = NewInstance(given).go_modules_by_name
    /\ aliased = NewInstance(given).aliased
    /\ log = NewInstance(given).log
    /\ purl_calls = NewInstance(given).purl_calls
    /\ jpc = "idle" /\ ji = 1 /\ jj = 1
    /\ spc = "idle" /\ si = 1 /\ sj = 1
    /\ returned = <<>>

\* a second instance built over pkgs, no call made on it
OtherOver(pkgs) ==
    [self |-> NewInstance(pkgs), op |-> "", pc |-> "idle", i |-> 1, j |-> 1,
     returned |-> <<>>]

\* no second instance is followed
NoOther == other = OtherOver(<<>>)

\* no call of Package.from_json is followed
NothingBuilt ==
    raw = <<>> /\ built = <<>> /\ heap = <<>> /\ appended_to = <<>> /\ shared = {}

Init == given \in PackageLists /\ Constructed /\ NothingBuilt /\ NoOther

\* the calls are made one after the other, MaxCalls of them at most
MayCall == jpc = "idle" /\ spc = "idle" /\ Len(returned) < MaxCalls

(***************************************************************************)
(* to_json()                                                               *)
(***************************************************************************)
\* a variant that enters the second loop without the first
ToJsonBeginAtDependencies ==
    /\ MayCall
    /\ Install(ToJsonReset(Self))
    /\ LET pos == AdvanceTo(packages, 1, 1)
       IN  IF pos[1] <= Len(packages)
           THEN jpc' = "deps" /\ ji' = pos[1] /\ jj' = pos[2]
           ELSE jpc' = "sources" /\ ji' = 1 /\ jj' = 1
    /\ UNCHANGED json_vars
    /\ UNCHANGED other
    /\ UNCHANGED <<given, request, base_icm, spc, si, sj, returned>>

ToJsonBegin ==
    /\ MayCall
    /\ Install(ToJsonReset(Self))
    /\ jpc' = IF packages = <<>> THEN "sources" ELSE "seed"
    /\ ji' = 1 /\ jj' = 1
    /\ UNCHANGED json_vars
    /\ UNCHANGED other
    /\ UNCHANGED <<given, request, base_icm, spc, si, sj, returned>>

ToJsonSeedStep ==
    /\ jpc = "seed"
    /\ LET r == ToJsonSeed(Self, request, ji)
           pos == AdvanceTo(packages, 1, 1)
       IN  /\ Install(r.self)
           /\ IF r.err # ""
              THEN /\ jpc' = "idle" /\ ji' = 1 /\ jj' = 1
                   /\ returned' = Append(returned, Raised("to_json", r.err))
              ELSE IF ji < Len(packages)
              THEN /\ jpc' = "seed" /\ ji' = ji + 1 /\ jj' = 1
                   /\ UNCHANGED returned
              ELSE IF pos[1] <= Len(packages)
              THEN /\ jpc' = "deps" /\ ji' = pos[1] /\ jj' = pos[2]
                   /\ UNCHANGED returned
              ELSE /\ jpc' = "sources" /\ ji' = 1 /\ jj' = 1
                   /\ UNCHANGED returned
    /\ UNCHANGED json_vars
    /\ UNCHANGED other
    /\ UNCHANGED <<given, request, base_icm, spc, si, sj>>

ToJsonDepStep ==
    /\ jpc = "deps"
    /\ LET r == ProcessDependency(Self, request, ji, jj, "icm")
           pos == AdvanceTo(packages, ji, jj + 1)
       IN  /\ Install(r.self)
           /\ IF r.err # ""
              THEN /\ jpc' = "idle" /\ ji' = 1 /\ jj' = 1
                   /\ returned' = Append(returned, Raised("to_json", r.err))
              ELSE IF pos[1] <= Len(packages)
              THEN /\ jpc' = "deps" /\ ji' = pos[1] /\ jj' = pos[2]
                   /\ UNCHANGED returned
              ELSE /\ jpc' = "sources" /\ ji' = 1 /\ jj' = 1
                   /\ UNCHANGED returned
    /\ UNCHANGED json_vars
    /\ UNCHANGED other
    /\ UNCHANGED <<given, request, base_icm, spc, si, sj>>

ToJsonSources ==
    /\ jpc = "sources"
    /\ Install(SetGoPackageSources(Self))
    /\ jpc' = "return"
    /\ UNCHANGED json_vars
    /\ UNCHANGED other
    /\ UNCHANGED <<given, request, base_icm, ji, jj, spc, si, sj, returned>>

ToJsonReturn ==
    /\ jpc = "return"
    /\ LET top_level_packages == [tag |-> "list", val |-> TopLevelPackages(Self)]
           g == GenerateIcm(base_icm, top_level_packages)
       IN  /\ Install(SortedInPlace(Self))
           /\ base_icm' = g.base
           /\ returned' = Append(returned,
                                 Returned("to_json", top_level_packages,
                                          SortValue(top_level_packages), g.icm))
           /\ shared' = IF g.shares = {} THEN shared ELSE shared \cup {Len(returned) + 1}
    /\ jpc' = "idle"
    /\ UNCHANGED <<raw, built, heap, appended_to>>
    /\ UNCHANGED other
    /\ UNCHANGED <<given, request, ji, jj, spc, si, sj>>

(***************************************************************************)
(* sbom_components_list()                                                  *)
(***************************************************************************)
SbomBegin ==
    /\ MayCall
    /\ Install(SbomReset(Self))
    /\ spc' = IF packages = <<>> THEN "return" ELSE "seed"
    /\ si' = 1 /\ sj' = 1
    /\ UNCHANGED json_vars
    /\ UNCHANGED other
    /\ UNCHANGED <<given, request, base_icm, jpc, ji, jj, returned>>

SbomSeedStep ==
    /\ spc = "seed"
    /\ LET r == SbomSeed(Self, request, si)
           pos == AdvanceTo(packages, 1, 1)
       IN  /\ Install(r.self)
           /\ IF r.err # ""
              THEN /\ spc' = "idle" /\ si' = 1 /\ sj' = 1
                   /\ returned' = Append(returned, Raised("sbom_components_list", r.err))
              ELSE IF si < Len(packages)
              THEN /\ spc' = "seed" /\ si' = si + 1 /\ sj' = 1
                   /\ UNCHANGED returned
              ELSE IF pos[1] <= Len(packages)
              THEN /\ spc' = "deps" /\ si' = pos[1] /\ sj' = pos[2]
                   /\ UNCHANGED returned
              ELSE /\ spc' = "return" /\ si' = 1 /\ sj' = 1
                   /\ UNCHANGED returned
    /\ UNCHANGED json_vars
    /\ UNCHANGED other
    /\ UNCHANGED <<given, request, base_icm, jpc, ji, jj>>

SbomDepStep ==
    /\ spc = "deps"
    /\ LET r == ProcessDependency(Self, request, si, sj, "sbom")
           pos == AdvanceTo(packages, si, sj + 1)
       IN  /\ Install(r.self)
           /\ IF r.err # ""
              THEN /\ spc' = "idle" /\ si' = 1 /\ sj' = 1
                   /\ returned' = Append(returned, Raised("sbom_components_list", r.err))
              ELSE IF pos[1] <= Len(packages)
              THEN /\ spc' = "deps" /\ si' = pos[1] /\ sj' = pos[2]
                   /\ UNCHANGED returned
              ELSE /\ spc' = "return" /\ si' = 1 /\ sj' = 1
                   /\ UNCHANGED returned
    /\ UNCHANGED json_vars
    /\ UNCHANGED other
    /\ UNCHANGED <<given, request, base_icm, jpc, ji, jj>>

SbomReturn ==
    /\ spc = "return"
    /\ returned' = Append(returned,
                          Returned("sbom_components_list", NoArgument, NoArgument,
                                   sbom_components))
    /\ spc' = "idle"
    /\ UNCHANGED json_vars
    /\ UNCHANGED other
    /\ UNCHANGED <<given, request, base_icm, packages, gopkg_data, gomod_data, npm_data,
                   pip_data, yarn_data, rubygems_data, gitsubmodule_data,
                   sbom_components, go_modules_by_name, aliased, log, purl_calls,
                   jpc, ji, jj, si, sj>>

(***************************************************************************)
(* generate_icm(image_contents), called by a user of the instance          *)
(***************************************************************************)
GenerateIcmCall ==
    /\ MayCall
    /\ \E n \in 1..Len(IcmArguments) :
           LET c == IcmArguments[n]
               g == GenerateIcm(base_icm, c)
           IN  /\ base_icm' = g.base
               /\ returned' = Append(returned,
                                     Returned("generate_icm", c,
                                              IF TruthyValue(c) THEN SortValue(c) ELSE c,
                                              g.icm))
               /\ shared' = IF g.shares = {} THEN shared ELSE shared \cup {Len(returned) + 1}
    /\ UNCHANGED <<raw, built, heap, appended_to>>
    /\ UNCHANGED other
    /\ UNCHANGED <<given, request, packages, gopkg_data, gomod_data, npm_data,
                   pip_data, yarn_data, rubygems_data, gitsubmodule_data,
                   sbom_components, go_modules_by_name, aliased, log, purl_calls,
                   jpc, ji, jj, spc, si, sj>>

Next ==
    \/ ToJsonBegin
    \/ ToJsonSeedStep
    \/ ToJsonDepStep
    \/ ToJsonSources
    \/ ToJsonReturn
    \/ SbomBegin
    \/ SbomSeedStep
    \/ SbomDepStep
    \/ SbomReturn

Spec == Init /\ [][Next]_vars

\* generate_icm reads nothing of the instance: the calls of it, mixed with the
\* other two, are followed on the instances over at most one package
InitIcm == Init /\ Len(given) <= 1

NextIcm == Next \/ GenerateIcmCall

SpecIcm == InitIcm /\ [][NextIcm]_vars

\* the instances over the Go packages of one repository
InitGo == given \in GoPackageLists /\ Constructed /\ NothingBuilt /\ NoOther

SpecGo == InitGo /\ [][Next]_vars

(***************************************************************************)
(* Package.from_json, called on one JSON object after the other, and a     *)
(* caller that appends to the dependencies of the packages it got          *)
(***************************************************************************)
InitJson ==
    /\ raw \in RawLists
    /\ built = <<>> /\ heap = <<>> /\ appended_to = <<>> /\ shared = {}
    /\ given = <<>>
    /\ Constructed
    /\ NoOther

FromJsonCall ==
    /\ Len(built) < Len(raw)
    /\ LET r == FromJson(heap, raw[Len(built) + 1])
       IN  /\ heap' = r.heap
           /\ built' = Append(built, [obj |-> r.obj, err |-> r.err])
    /\ UNCHANGED <<raw, appended_to, other, shared>>
    /\ UNCHANGED <<given, request, base_icm, packages, gopkg_data, gomod_data, npm_data,
                   pip_data, yarn_data, rubygems_data, gitsubmodule_data,
                   sbom_components, go_modules_by_name, aliased, log, purl_calls,
                   jpc, ji, jj, spc, si, sj, returned>>

\* built[k].obj.dependencies.append(Package(ExtraName, "npm"))
AppendCall ==
    /\ Len(appended_to) < MaxAppends
    /\ \E k \in 1..Len(built) :
           /\ built[k].err = ""
           /\ LET p == PackageInit(heap, ExtraName, "npm", NoVersion, FALSE, <<>>, NoList)
              IN  heap' = [p.heap EXCEPT ![built[k].obj.dependencies] = Append(@, p.obj)]
           /\ appended_to' = Append(appended_to, k)
    /\ UNCHANGED <<raw, built, other, shared>>
    /\ UNCHANGED <<given, request, base_icm, packages, gopkg_data, gomod_data, npm_data,
                   pip_data, yarn_data, rubygems_data, gitsubmodule_data,
                   sbom_components, go_modules_by_name, aliased, log, purl_calls,
                   jpc, ji, jj, spc, si, sj, returned>>

NextJson == FromJsonCall \/ AppendCall

SpecJson == InitJson /\ [][NextJson]_vars

(***************************************************************************)
(* to_top_level_purl(package, request, subpath), called directly on a      *)
(* package of the list                                                     *)
(***************************************************************************)
\* the subpaths of the direct calls: None, a path, and the package's own
Subpaths(package) == {<<>>, <<"some", "subpath">>, package.path}

ToTopLevelPurlCall ==
    /\ MayCall
    /\ \E i \in 1..Len(packages) : \E subpath \in Subpaths(packages[i]) :
           LET r == ToTopLevelPurl(packages[i], request, subpath)
           IN  returned' = Append(returned,
                                  [op |-> "to_top_level_purl",
                                   arg |-> [tag |-> "call", val |-> <<i, subpath>>],
                                   after |-> NoArgument,
                                   status |-> IF r.ok THEN "returned" ELSE "raised",
                                   err |-> r.err, value |-> r.purl])
    /\ UNCHANGED json_vars
    /\ UNCHANGED other
    /\ UNCHANGED <<given, request, base_icm, packages, gopkg_data, gomod_data, npm_data,
                   pip_data, yarn_data, rubygems_data, gitsubmodule_data,
                   sbom_components, go_modules_by_name, aliased, log, purl_calls,
                   jpc, ji, jj, spc, si, sj>>

\* the direct calls, on the instances over at most one package
InitPurl == Init /\ Len(given) <= 1

NextPurl == ToTopLevelPurlCall

SpecPurl == InitPurl /\ [][NextPurl]_vars

(***************************************************************************)
(* to_purl(package), called directly, next to the calls of the instance    *)
(* that reach it                                                           *)
(***************************************************************************)
\* the packages of the direct calls
PurlInputs ==
    << Dep(<<"foo">>, "cargo", Plain("v1"), FALSE),
       Dep(<<"foo">>, "npm", UnknownProtocol, FALSE),
       Dep(<<"foo">>, "yarn", UnknownProtocol, FALSE),
       Dep(<<"odd">>, "npm", BogusForge, FALSE),
       Dep(<<"foo">>, "npm", Plain("v1"), FALSE),
       Dep(<<"foo">>, "yarn", Forge(<<"github", "org", "foo">>, "c1"), FALSE),
       Dep(<<"foo">>, "pip", Plain("v1"), FALSE) >>

ToPurlCall ==
    /\ MayCall
    /\ \E n \in 1..Len(PurlInputs) :
           LET r == ToPurl(PurlInputs[n], NoPath)
           IN  returned' = Append(returned,
                                  [op |-> "to_purl",
                                   arg |-> [tag |-> "call", val |-> <<n>>],
                                   after |-> NoArgument,
                                   status |-> IF r.ok THEN "returned" ELSE "raised",
                                   err |-> r.err, value |-> r.purl])
    /\ UNCHANGED json_vars
    /\ UNCHANGED other
    /\ UNCHANGED <<given, request, base_icm, packages, gopkg_data, gomod_data, npm_data,
                   pip_data, yarn_data, rubygems_data, gitsubmodule_data,
                   sbom_components, go_modules_by_name, aliased, log, purl_calls,
                   jpc, ji, jj, spc, si, sj>>

NextErr == Next \/ ToPurlCall

SpecErr == InitPurl /\ [][NextErr]_vars

\* _get_local_go_package_dep_purl called on the instance as it stands, for a
\* go-package of the list and one of its go-package dependencies
GetLocalGoPackageDepPurlCall ==
    /\ MayCall
    /\ \E i \in 1..Len(packages) : \E j \in 1..Len(packages[i].dependencies) :
           /\ packages[i].type = "go-package"
           /\ packages[i].dependencies[j].type = "go-package"
           /\ LET r == GetLocalGoPackageDepPurl(Self, i, j)
              IN  /\ Install(r.self)
                  /\ returned' = Append(returned,
                                        [op |-> "_get_local_go_package_dep_purl",
                                         arg |-> [tag |-> "call", val |-> <<i, j>>],
                                         after |-> NoArgument,
                                         status |-> IF r.err = "" THEN "returned" ELSE "raised",
                                         err |-> r.err, value |-> r.purl])
    /\ UNCHANGED json_vars
    /\ UNCHANGED other
    /\ UNCHANGED <<given, request, base_icm, jpc, ji, jj, spc, si, sj>>

NextLocal == Next \/ GetLocalGoPackageDepPurlCall

SpecLocal == InitGo /\ [][NextLocal]_vars

\* a caller changes the metadata of a document it was returned: the template
\* changes with it when the document has the metadata object of the template
ChangeReturned ==
    /\ jpc = "idle" /\ spc = "idle"
    /\ \E k \in 1..Len(returned) :
           /\ returned[k].op \in {"to_json", "generate_icm"}
           /\ returned[k].status = "returned"
           /\ Get(Get(returned[k].value, "metadata"), "icm_version") = VERSION
           /\ LET changed == Put(Get(returned[k].value, "metadata"), "icm_version", VERSION + 1)
              IN  /\ returned' = [returned EXCEPT ![k].value = Put(@, "metadata", changed)]
                  /\ base_icm' = IF k \in shared THEN Put(base_icm, "metadata", changed)
                                 ELSE base_icm
    /\ UNCHANGED json_vars
    /\ UNCHANGED other
    /\ UNCHANGED <<given, request, packages, gopkg_data, gomod_data, npm_data,
                   pip_data, yarn_data, rubygems_data, gitsubmodule_data,
                   sbom_components, go_modules_by_name, aliased, log, purl_calls,
                   jpc, ji, jj, spc, si, sj>>

(***************************************************************************)
(* Two threads on one instance, one in to_json() and one in                *)
(* sbom_components_list(), a step of either at a time, and a third thread  *)
(* in one call on a second instance built over Package objects of its own. *)
(***************************************************************************)
InitPar ==
    /\ given \in GoPackageLists
    /\ Len(given) <= 2
    /\ Constructed
    /\ NothingBuilt
    /\ other = OtherOver(given)

\* no call of the operation was made on the first instance
NotCalled(op) == \A k \in 1..Len(returned) : returned[k].op # op

ParToJsonBegin ==
    /\ jpc = "idle" /\ NotCalled("to_json")
    /\ Install(ToJsonReset(Self))
    /\ jpc' = IF packages = <<>> THEN "sources" ELSE "seed"
    /\ ji' = 1 /\ jj' = 1
    /\ UNCHANGED json_vars
    /\ UNCHANGED other
    /\ UNCHANGED <<given, request, base_icm, spc, si, sj, returned>>

ParSbomBegin ==
    /\ spc = "idle" /\ NotCalled("sbom_components_list")
    /\ Install(SbomReset(Self))
    /\ spc' = IF packages = <<>> THEN "return" ELSE "seed"
    /\ si' = 1 /\ sj' = 1
    /\ UNCHANGED json_vars
    /\ UNCHANGED other
    /\ UNCHANGED <<given, request, base_icm, jpc, ji, jj, returned>>

\* what is left unchanged by a step of the second instance that returns
\* no document
FirstInstance ==
    <<given, request, packages, gopkg_data, gomod_data, npm_data, pip_data, yarn_data,
      rubygems_data, gitsubmodule_data, sbom_components, go_modules_by_name, aliased,
      log, purl_calls, jpc, ji, jj, spc, si, sj, returned>>

\* the place after the loops over the dependencies
AfterLoops(op) == IF op = "to_json" THEN "sources" ELSE "return"

OtherBegin ==
    /\ other.pc = "idle" /\ other.returned = <<>>
    /\ \E op \in {"to_json", "sbom_components_list"} :
           other' = [other EXCEPT
                        !.op = op,
                        !.self = IF op = "to_json" THEN ToJsonReset(@) ELSE SbomReset(@),
                        !.pc = IF other.self.packages = <<>> THEN AfterLoops(op) ELSE "seed",
                        !.i = 1, !.j = 1]
    /\ UNCHANGED json_vars
    /\ UNCHANGED base_icm
    /\ UNCHANGED FirstInstance

\* the call on the second instance ends with an exception
OtherRaised(s, err) ==
    [other EXCEPT !.self = s, !.pc = "idle", !.i = 1, !.j = 1,
                  !.returned = Append(@, Raised(other.op, err))]

OtherSeedStep ==
    /\ other.pc = "seed"
    /\ LET r == IF other.op = "to_json" THEN ToJsonSeed(other.self, request, other.i)
                ELSE SbomSeed(other.self, request, other.i)
           pos == AdvanceTo(other.self.packages, 1, 1)
       IN  other' = IF r.err # "" THEN OtherRaised(r.self, r.err)
                    ELSE IF other.i < Len(other.self.packages)
                    THEN [other EXCEPT !.self = r.self, !.i = @ + 1, !.j = 1]
                    ELSE IF pos[1] <= Len(other.self.packages)
                    THEN [other EXCEPT !.self = r.self, !.pc = "deps",
                                       !.i = pos[1], !.j = pos[2]]
                    ELSE [other EXCEPT !.self = r.self, !.pc = AfterLoops(other.op),
                                       !.i = 1, !.j = 1]
    /\ UNCHANGED json_vars
    /\ UNCHANGED base_icm
    /\ UNCHANGED FirstInstance

OtherDepStep ==
    /\ other.pc = "deps"
    /\ LET r == ProcessDependency(other.self, request, other.i, other.j,
                                  IF other.op = "to_json" THEN "icm" ELSE "sbom")
           pos == AdvanceTo(other.self.packages, other.i, other.j + 1)
       IN  other' = IF r.err # "" THEN OtherRaised(r.self, r.err)
                    ELSE IF pos[1] <= Len(other.self.packages)
                    THEN [other EXCEPT !.self = r.self, !.i = pos[1], !.j = pos[2]]
                    ELSE [other EXCEPT !.self = r.self, !.pc = AfterLoops(other.op),
                                       !.i = 1, !.j = 1]
    /\ UNCHANGED json_vars
    /\ UNCHANGED base_icm
    /\ UNCHANGED FirstInstance

OtherSources ==
    /\ other.pc = "sources"
    /\ other' = [other EXCEPT !.self = SetGoPackageSources(@), !.pc = "return"]
    /\ UNCHANGED json_vars
    /\ UNCHANGED base_icm
    /\ UNCHANGED FirstInstance

OtherReturn ==
    /\ other.pc = "return"
    /\ IF other.op = "to_json"
       THEN LET top_level_packages == [tag |-> "list", val |-> TopLevelPackages(other.self)]
                g == GenerateIcm(base_icm, top_level_packages)
            IN  /\ base_icm' = g.base
                /\ other' = [other EXCEPT
                                 !.self = SortedInPlace(@), !.pc = "idle",
                                 !.returned = Append(@, Returned("to_json", top_level_packages,
                                                                 SortValue(top_level_packages),
                                                                 g.icm))]
       ELSE /\ UNCHANGED base_icm
            /\ other' = [other EXCEPT
                             !.pc = "idle",
                             !.returned = Append(@, Returned("sbom_components_list",
                                                             NoArgument, NoArgument,
                                                             other.self.sbom_components))]
    /\ UNCHANGED json_vars
    /\ UNCHANGED FirstInstance

\* two instances over one package, the calls of to_json and generate_icm on
\* them and the changes of their callers
InitShared ==
    /\ given \in PackageLists
    /\ Len(given) <= 1
    /\ Constructed
    /\ NothingBuilt
    /\ other = OtherOver(given)

NextShared ==
    \/ Next
    \/ GenerateIcmCall
    \/ OtherBegin
    \/ OtherSeedStep
    \/ OtherDepStep
    \/ OtherSources
    \/ OtherReturn
    \/ ChangeReturned

SpecShared == InitShared /\ [][NextShared]_vars

NextPar ==
    \/ ParToJsonBegin
    \/ ToJsonSeedStep
    \/ ToJsonDepStep
    \/ ToJsonSources
    \/ ToJsonReturn
    \/ ParSbomBegin
    \/ SbomSeedStep
    \/ SbomDepStep
    \/ SbomReturn
    \/ OtherBegin
    \/ OtherSeedStep
    \/ OtherDepStep
    \/ OtherSources
    \/ OtherReturn

SpecPar == InitPar /\ [][NextPar]_vars

(***************************************************************************)
(* Properties.                                                             *)
(***************************************************************************)
StandardTypes == {"npm", "pip", "yarn"}

RECURSIVE DepsOfEntry(_, _)
\* the dependencies, in list order, of the packages that share the entry key
DepsOfEntry(pkgs, key) ==
    IF pkgs = <<>> THEN <<>>
    ELSE (IF PackageId(Head(pkgs)) = key THEN Head(pkgs).dependencies ELSE <<>>)
             \o DepsOfEntry(Tail(pkgs), key)

\* the {purl} mappings of a list of dependencies
PurlsOf(deps) == [n \in 1..Len(deps) |-> <<KV("purl", ToPurl(deps[n], NoPath).purl)>>]

\* the dependencies of the entry key that are of type t, and those not dev
OfType(deps, t) == SelectSeq(deps, LAMBDA d : d.type = t)
NotDev(deps) == SelectSeq(deps, LAMBDA d : ~d.dev)

\* to_json is through its loops, or has just returned its document
LoopsDone == jpc = "return"
JustReturned ==
    /\ jpc = "idle" /\ spc = "idle" /\ Len(returned) > 0
    /\ returned[Len(returned)].op = "to_json"
    /\ returned[Len(returned)].status = "returned"

\* a list of an entry as to_json leaves it: as appended, then sorted in place
AsLeft(l) == IF LoopsDone THEN l ELSE SortPurlList(l)

\* C1 as stated: after to_json(), the entry of every npm, pip or yarn package
\* holds in `sources` the purl of every dependency of the package, and in
\* `dependencies` the purl of every dependency that is not dev.
C1_AsStated ==
    (LoopsDone \/ JustReturned) =>
        \A t \in StandardTypes : \A n \in 1..Len(TypeData(Self, t)) :
            LET e == TypeData(Self, t)[n]
                deps == DepsOfEntry(packages, e.k)
            IN  /\ Get(e.v, "sources") = AsLeft(PurlsOf(deps))
                /\ Get(e.v, "dependencies") = AsLeft(PurlsOf(NotDev(deps)))

\* C1, amended: after to_json(), the entry of every npm, pip or yarn package
\* holds in `sources` the purls of the dependencies that are of the package's
\* own type, dev ones included, and in `dependencies` the purls of those of
\* them that are not dev; a dependency of another type is in neither list.
C1_DevOnlyInSources ==
    (LoopsDone \/ JustReturned) =>
        \A t \in StandardTypes : \A n \in 1..Len(TypeData(Self, t)) :
            LET e == TypeData(Self, t)[n]
                deps == OfType(DepsOfEntry(packages, e.k), t)
            IN  /\ Get(e.v, "sources") = AsLeft(PurlsOf(deps))
                /\ Get(e.v, "dependencies") = AsLeft(PurlsOf(NotDev(deps)))

\* to_json has returned a document with an npm entry that has a dev and a
\* non-dev dependency: two sources, one dependency
C1_Witness ==
    /\ JustReturned
    /\ \E n \in 1..Len(npm_data) :
           /\ Len(Get(npm_data[n].v, "sources")) = 2
           /\ Len(Get(npm_data[n].v, "dependencies")) = 1
           /\ \E d \in {DepsOfEntry(packages, npm_data[n].k)[m] :
                              m \in 1..Len(DepsOfEntry(packages, npm_data[n].k))} : d.dev

\* a step of the second loop of to_json on a dependency of an npm, pip or
\* yarn package that raises nothing
StandardStep == jpc = "deps" /\ packages[ji].type \in StandardTypes /\ jpc' # "idle"

\* the entry of a package, by its key, before and after the step
EntryOf(key, t) == Get(TypeData(Self, t), key)
NextEntryOf(key, t) == Get(TypeData(Self', t), key)

\* C2 as stated: in the second loop of to_json, for npm, pip and yarn, the
\* {purl} of every dependency is appended to the owning entry's
\* `dependencies`, and to its `sources` unless the dependency is dev.
C2_AsStated ==
    [][StandardStep =>
          LET t == packages[ji].type
              key == PackageId(packages[ji])
              d == packages[ji].dependencies[jj]
              purl == <<KV("purl", ToPurl(d, NoPath).purl)>>
          IN  /\ Get(NextEntryOf(key, t), "dependencies")
                     = Append(Get(EntryOf(key, t), "dependencies"), purl)
              /\ Get(NextEntryOf(key, t), "sources")
                     = IF d.dev THEN Get(EntryOf(key, t), "sources")
                       ELSE Append(Get(EntryOf(key, t), "sources"), purl)]_vars

\* C2, amended: in the second loop of to_json, for npm, pip and yarn, the
\* {purl} of a dependency of the owning package's type is appended to the
\* owning entry's `sources`, and to its `dependencies` unless the dependency
\* is dev (so `dependencies` is `sources` without the dev dependencies); a
\* dependency of another type changes neither list.
C2_SourcesThenDependencies ==
    [][StandardStep =>
          LET t == packages[ji].type
              key == PackageId(packages[ji])
              d == packages[ji].dependencies[jj]
              purl == <<KV("purl", ToPurl(d, NoPath).purl)>>
          IN  IF d.type = t
              THEN /\ Get(NextEntryOf(key, t), "sources")
                          = Append(Get(EntryOf(key, t), "sources"), purl)
                   /\ Get(NextEntryOf(key, t), "dependencies")
                          = IF d.dev THEN Get(EntryOf(key, t), "dependencies")
                            ELSE Append(Get(EntryOf(key, t), "dependencies"), purl)
              ELSE NextEntryOf(key, t) = EntryOf(key, t)]_vars

\* the second loop of to_json has taken the dev dependency of a yarn package:
\* its entry has one source and no dependency
C2_Witness ==
    /\ jpc = "deps"
    /\ packages[ji].type = "yarn" /\ jj = 2
    /\ packages[ji].dependencies[1].dev
    /\ Len(Get(EntryOf(PackageId(packages[ji]), "yarn"), "sources")) = 1
    /\ Get(EntryOf(PackageId(packages[ji]), "yarn"), "dependencies") = <<>>

\* C3: two calls of to_json() in a row on one instance end alike, and the
\* document the second returns equals the document the first returned, also
\* when the first call rewrote the version of a local go-package dependency.
C3_ToJsonTwice ==
    \A k \in 1..(Len(returned) - 1) :
        (returned[k].op = "to_json" /\ returned[k + 1].op = "to_json") =>
            /\ returned[k + 1].status = returned[k].status
            /\ returned[k + 1].err = returned[k].err
            /\ returned[k + 1].value = returned[k].value

\* to_json returned twice, and a dependency no longer has the version it was
\* built with
C3_Witness ==
    /\ Len(returned) = 2
    /\ \A k \in 1..2 : returned[k].op = "to_json" /\ returned[k].status = "returned"
    /\ \E i \in 1..Len(given) : \E j \in 1..Len(given[i].dependencies) :
           /\ given[i].type = "go-package"
           /\ IsLocal(given[i].dependencies[j].version)
           /\ packages[i].dependencies[j].version # given[i].dependencies[j].version

\* the other of the two operations
OtherOp(op) == IF op = "to_json" THEN "sbom_components_list" ELSE "to_json"

\* what the operation gives when it is the first call made on the instance
OnNewInstance(op) ==
    IF op = "to_json" THEN ToJson(NewInstance(given), request).result
    ELSE SbomComponentsList(NewInstance(given), request).result

\* C4: what sbom_components_list() returns after calls of to_json() on the
\* instance is what it returns on an instance no call was made on, and what
\* to_json() returns after calls of sbom_components_list() is what it
\* returns on an instance no call was made on.
C4_NoContamination ==
    \A k \in 2..Len(returned) :
        (/\ returned[k].op \in {"to_json", "sbom_components_list"}
         /\ \E h \in 1..(k - 1) : returned[h].op = OtherOp(returned[k].op)) =>
            returned[k] = OnNewInstance(returned[k].op)

\* sbom_components_list returned components after a to_json call that rewrote
\* the version of a local go-package dependency
C4_Witness ==
    /\ Len(returned) = 2
    /\ returned[1].op = "to_json" /\ returned[1].status = "returned"
    /\ returned[2].op = "sbom_components_list" /\ returned[2].status = "returned"
    /\ Len(returned[2].value) > Len(given)
    /\ \E i \in 1..Len(given) : \E j \in 1..Len(given[i].dependencies) :
           /\ IsLocal(given[i].dependencies[j].version)
           /\ ~IsLocal(packages[i].dependencies[j].version)

\* the document of an empty package list
EmptyMetadata ==
    << KV("icm_spec", JSON_SCHEMA_URL), KV("icm_version", 1), KV("image_layer_index", -1) >>
EmptyDocument ==
    << KV("image_contents", [tag |-> "list", val |-> <<>>]), KV("metadata", EmptyMetadata) >>

\* a list of one go-package, npm, pip or yarn package without dependencies
SinglePackage ==
    /\ Len(given) = 1
    /\ given[1].type \in {"go-package", "npm", "pip", "yarn"}
    /\ given[1].dependencies = <<>>

\* C5: to_json() on an empty package list returns the document of metadata
\* icm_version 1, icm_spec the schema URL, image_layer_index -1 and an empty
\* image_contents; on a single go-package, npm, pip or yarn package without
\* dependencies it returns that metadata and the one entry of the package's
\* top-level purl (subpath the package's path) with empty dependencies and
\* sources, and it computes the top-level purl once.
C5_SmallDocuments ==
    /\ \A k \in 1..Len(returned) :
           returned[k].op = "to_json" =>
               /\ given = <<>> =>
                      returned[k].status = "returned" /\ returned[k].value = EmptyDocument
               /\ SinglePackage =>
                      /\ returned[k].status = "returned"
                      /\ returned[k].value =
                             << KV("image_contents",
                                   [tag |-> "list",
                                    val |-> << << KV("dependencies", <<>>),
                                                  KV("purl", ToTopLevelPurl(given[1], request,
                                                                            given[1].path).purl),
                                                  KV("sources", <<>>) >> >>]),
                                KV("metadata", EmptyMetadata) >>
    /\ (JustReturned /\ SinglePackage) =>
           purl_calls = << [package |-> 1, subpath |-> given[1].path] >>

\* to_json returned the document of a single go-package without dependencies
C5_Witness ==
    /\ JustReturned
    /\ SinglePackage
    /\ given[1].type = "go-package"
    /\ Len(Get(returned[Len(returned)].value, "image_contents").val) = 1

\* the places in pkgs of the packages of type t that no earlier package equals
FirstSeen(pkgs, t) ==
    SelectSeq([i \in 1..Len(pkgs) |-> i],
              LAMBDA i : /\ pkgs[i].type = t
                         /\ \A h \in 1..(i - 1) : ~PackageEq(pkgs[h], pkgs[i]))

\* the top-level purls of the packages at the places is
TopLevelPurlsAt(pkgs, is) ==
    [n \in 1..Len(is) |-> ToTopLevelPurl(pkgs[is[n]], request, pkgs[is[n]].path).purl]

\* C6: the list to_json() hands to generate_icm holds the entries of the
\* go-package, npm, pip, yarn, rubygems and git-submodule packages, the
\* groups in this order and each group in first-seen order; a gomod package
\* has no entry; every entry has exactly the keys purl, dependencies and
\* sources.
C6_ImageContentsOrder ==
    \A k \in 1..Len(returned) :
        (returned[k].op = "to_json" /\ returned[k].status = "returned") =>
            LET handed == returned[k].arg.val
            IN  /\ [n \in 1..Len(handed) |-> Get(handed[n], "purl")]
                       = TopLevelPurlsAt(given, FirstSeen(given, "go-package"))
                           \o TopLevelPurlsAt(given, FirstSeen(given, "npm"))
                           \o TopLevelPurlsAt(given, FirstSeen(given, "pip"))
                           \o TopLevelPurlsAt(given, FirstSeen(given, "yarn"))
                           \o TopLevelPurlsAt(given, FirstSeen(given, "rubygems"))
                           \o TopLevelPurlsAt(given, FirstSeen(given, "git-submodule"))
                /\ \A n \in 1..Len(handed) :
                       /\ Len(handed[n]) = 3
                       /\ KeySet(handed[n]) = {"purl", "dependencies", "sources"}

\* to_json returned for a list of an npm, pip or yarn package followed by a
\* go-package: the entry of the second package was handed over first
C6_Witness ==
    /\ Len(given) = 2
    /\ given[1].type \in StandardTypes /\ given[2].type = "go-package"
    /\ \E k \in 1..Len(returned) :
           /\ returned[k].op = "to_json" /\ returned[k].status = "returned"
           /\ Len(returned[k].arg.val) = 2
           /\ Get(returned[k].arg.val[1], "purl")
                  = ToTopLevelPurl(given[2], request, given[2].path).purl

\* the keys of a mapping are in ascending order
KeysAscend(d) == \A n \in 1..(Len(d) - 1) : KeyRank(d[n].k) < KeyRank(d[n + 1].k)

\* every mapping inside an image_contents value has its keys in ascending order
NestedKeysAscend(c) ==
    CASE c.tag = "dict" -> KeysAscend(c.val)
      [] c.tag = "list" ->
           \A n \in 1..Len(c.val) :
               /\ KeysAscend(c.val[n])
               /\ \A f \in {"dependencies", "sources"} :
                      \A m \in 1..Len(Get(c.val[n], f)) : KeysAscend(Get(c.val[n], f)[m])
      [] OTHER -> TRUE

\* C7: generate_icm(c) returns a document of exactly the keys image_contents
\* and metadata, of metadata icm_spec the schema URL, icm_version 1 and
\* image_layer_index -1, and of image_contents c itself (as the call leaves
\* it) when c is truthy and the empty list otherwise; every mapping of the
\* document has its keys in ascending order.
C7_GenerateIcm ==
    \A k \in 1..Len(returned) :
        (returned[k].op = "generate_icm") =>
            LET c == returned[k].arg
                icm == returned[k].value
            IN  /\ returned[k].status = "returned"
                /\ Keys(icm) = <<"image_contents", "metadata">>
                /\ Get(icm, "metadata") = EmptyMetadata
                /\ Get(icm, "image_contents")
                       = IF TruthyValue(c) THEN returned[k].after
                         ELSE [tag |-> "list", val |-> <<>>]
                /\ c.tag \in {"str", "int"} => Get(icm, "image_contents") = c
                /\ NestedKeysAscend(Get(icm, "image_contents"))

\* generate_icm was called with None and with a list of two entries
C7_Witness ==
    /\ Len(returned) = 2
    /\ returned[1].op = "generate_icm" /\ returned[1].arg.tag = "none"
    /\ returned[2].op = "generate_icm" /\ returned[2].arg.tag = "list"
    /\ Len(Get(returned[2].value, "image_contents").val) = 2

SupportedTypes == {"go-package", "gomod", "npm", "pip", "yarn", "rubygems", "git-submodule"}
ProcessorTypes == {"go-package", "gomod", "npm", "pip", "yarn", "rubygems"}

\* the places of the packages of a supported type, in list order
TopPlaces(pkgs) == SelectSeq([i \in 1..Len(pkgs) |-> i], LAMBDA i : pkgs[i].type \in SupportedTypes)

RECURSIVE DepPlaces(_, _)
\* the places <<i, j>> of the dependencies of packages i.., in loop order
DepPlaces(pkgs, i) ==
    IF i > Len(pkgs) THEN <<>>
    ELSE [j \in 1..Len(pkgs[i].dependencies) |-> <<i, j>>] \o DepPlaces(pkgs, i + 1)

\* the listed dependencies of the packages that have a dependency processor
ListedPlaces(pkgs) ==
    SelectSeq(DepPlaces(pkgs, 1), LAMBDA p : pkgs[p[1]].type \in ProcessorTypes)

\* those of them that are of the type of the owning package
OwnTypePlaces(pkgs) ==
    SelectSeq(ListedPlaces(pkgs),
              LAMBDA p : pkgs[p[1]].dependencies[p[2]].type = pkgs[p[1]].type)

\* the package or dependency that the n-th component of a returned list is of
ComponentSubject(pkgs, n) ==
    IF n <= Len(TopPlaces(pkgs)) THEN pkgs[TopPlaces(pkgs)[n]]
    ELSE LET p == OwnTypePlaces(pkgs)[n - Len(TopPlaces(pkgs))]
         IN  pkgs[p[1]].dependencies[p[2]]

SbomReturned(k) ==
    returned[k].op = "sbom_components_list" /\ returned[k].status = "returned"

\* C8: sbom_components_list() returns first the components of the packages
\* of a supported type, in list order, and after all of them the components
\* of the dependencies, in the order of (place of the owning package, place
\* of the dependency in it); the list is not sorted again.
C8_SbomOrder ==
    \A k \in 1..Len(returned) :
        SbomReturned(k) =>
            LET v == returned[k].value
                tops == TopPlaces(given)
                deps == OwnTypePlaces(given)
            IN  /\ Len(v) = Len(tops) + Len(deps)
                /\ \A n \in 1..Len(tops) :
                       /\ Get(v[n], "name") = given[tops[n]].name
                       /\ Get(v[n], "purl")
                              = ToTopLevelPurl(given[tops[n]], request, given[tops[n]].path).purl
                /\ \A n \in 1..Len(deps) :
                       Get(v[Len(tops) + n], "name")
                           = given[deps[n][1]].dependencies[deps[n][2]].name

\* sbom_components_list returned for two packages with dependencies: the
\* component of the second package stands before that of a dependency of
\* the first
C8_Witness ==
    /\ Len(given) = 2
    /\ \E k \in 1..Len(returned) :
           /\ SbomReturned(k)
           /\ Len(TopPlaces(given)) = 2
           /\ OwnTypePlaces(given) # <<>>
           /\ OwnTypePlaces(given)[1][1] = 1
           /\ Get(returned[k].value[2], "name") = given[2].name
           /\ Get(returned[k].value[3], "name") = given[1].dependencies[OwnTypePlaces(given)[1][2]].name

\* C9: every component sbom_components_list() returns has type "library", a
\* name and a purl, and has a version key exactly when the version of its
\* package or dependency is neither None nor empty; a version key never
\* holds None or the empty string.
C9_ComponentShape ==
    \A k \in 1..Len(returned) :
        (SbomReturned(k) /\ Len(returned[k].value) = Len(TopPlaces(given)) + Len(OwnTypePlaces(given))) =>
            \A n \in 1..Len(returned[k].value) :
                LET component == returned[k].value[n]
                    subject == ComponentSubject(packages, n)
                IN  /\ HasKey(component, "type") /\ Get(component, "type") = "library"
                    /\ HasKey(component, "name") /\ Get(component, "name") = subject.name
                    /\ HasKey(component, "purl")
                    /\ HasKey(component, "version") <=> Truthy(subject.version)
                    /\ HasKey(component, "version") => Truthy(Get(component, "version"))
                    /\ KeySet(component) \subseteq {"type", "name", "purl", "version"}

\* sbom_components_list returned a component with a version key and a
\* component of a dependency without one
C9_Witness ==
    \E k \in 1..Len(returned) :
        /\ SbomReturned(k)
        /\ \E n \in 1..Len(returned[k].value) : HasKey(returned[k].value[n], "version")
        /\ \E n \in (Len(TopPlaces(given)) + 1)..Len(returned[k].value) :
               ~HasKey(returned[k].value[n], "version")

\* C10 as stated: the components of dependencies that
\* sbom_components_list() returns are as many as the dependencies listed by
\* the packages of the types go-package, gomod, npm, pip, yarn and rubygems.
C10_AsStated ==
    \A k \in 1..Len(returned) :
        SbomReturned(k) =>
            Len(returned[k].value) - Len(TopPlaces(given)) = Len(ListedPlaces(given))

\* C10, amended: for each package of the types go-package, gomod, npm, pip,
\* yarn and rubygems, sbom_components_list() appends one component per entry
\* of the package's dependencies list that is of the package's own type, and
\* none for an entry of another type; equal dependencies of several packages
\* each give a component, and the purl of a dependency of an npm, pip or
\* yarn package is the one to_purl gives for it.
C10_OnePerOwnTypeDependency ==
    \A k \in 1..Len(returned) :
        SbomReturned(k) =>
            LET v == returned[k].value
                tops == Len(TopPlaces(given))
                deps == OwnTypePlaces(given)
            IN  /\ Len(v) - tops = Len(deps)
                /\ \A n \in 1..Len(deps) :
                       given[deps[n][1]].type \in StandardTypes =>
                           Get(v[tops + n], "purl")
                               = ToPurl(given[deps[n][1]].dependencies[deps[n][2]], NoPath).purl

\* sbom_components_list returned for two packages that list an equal
\* dependency of their own type: it gave two components
C10_Witness ==
    /\ Len(given) = 2
    /\ \E k \in 1..Len(returned) :
           /\ SbomReturned(k)
           /\ \E a \in 1..Len(given[1].dependencies) : \E b \in 1..Len(given[2].dependencies) :
                  /\ PackageEq(given[1].dependencies[a], given[2].dependencies[b])
                  /\ given[1].dependencies[a].type = given[1].type
                  /\ given[2].dependencies[b].type = given[2].type
                  /\ given[1].type \in StandardTypes /\ given[2].type \in StandardTypes
                  /\ Cardinality({n \in 1..Len(returned[k].value) :
                                      Get(returned[k].value[n], "name")
                                          = given[1].dependencies[a].name}) >= 2

\* the packages of a list that are of a supported type
Supported(pkgs) == SelectSeq(pkgs, LAMBDA p : p.type \in SupportedTypes)

\* what the operation gives as the first call on a new instance over pkgs
OnNewInstanceOver(op, pkgs) ==
    IF op = "to_json" THEN ToJson(NewInstance(pkgs), request).result
    ELSE SbomComponentsList(NewInstance(pkgs), request).result

\* C11: a package of a type other than go-package, gomod, npm, pip, yarn,
\* rubygems and git-submodule changes nothing of what to_json() and
\* sbom_components_list() give: each call ends as it ends on the list
\* without these packages, with the same document or component list.
C11_UnsupportedSkipped ==
    \A k \in 1..Len(returned) :
        (/\ returned[k].op \in {"to_json", "sbom_components_list"}
         /\ Supported(given) # given) =>
            returned[k] = OnNewInstanceOver(returned[k].op, Supported(given))

\* both calls returned for a list of a cargo package with a dependency and
\* a package of a supported type with dependencies
C11_Witness ==
    /\ Len(given) = 2
    /\ given[1].type = "cargo" /\ given[1].dependencies # <<>>
    /\ given[2].type \in StandardTypes /\ given[2].dependencies # <<>>
    /\ Len(returned) = 2
    /\ returned[1].op = "to_json" /\ returned[1].status = "returned"
    /\ Len(returned[1].arg.val) = 1
    /\ returned[2].op = "sbom_components_list" /\ returned[2].status = "returned"
    /\ \E n \in 1..Len(log) : log[n].level = "debug"

\* the module name m is the package name or stands before a separator in it
OwnsName(m, name) == Len(m) <= Len(name) /\ \A n \in 1..Len(m) : m[n] = name[n]

\* the registered modules that own a name
OwnersOf(name) == {m \in KeySet(gomod_data) : OwnsName(m, name)}

\* C12: after to_json(), the `sources` of each go-package entry is the
\* `dependencies` list of the gomod entry of the package's name or, when
\* there is none, of the longest module name that is a path prefix of the
\* package name, with what gomod packages later in the list added to it; when
\* no module owns the package a warning is logged, `sources` is the empty
\* list and the call goes on.  A longer module name never matches.
C12_GoPackageSources ==
    (LoopsDone \/ JustReturned) =>
        \A n \in 1..Len(gopkg_data) :
            LET name == gopkg_data[n].k[1]
                entry == gopkg_data[n].v
                owners == OwnersOf(name)
                module == CHOOSE m \in owners : \A o \in owners : Len(o) <= Len(m)
            IN  /\ KeySet(entry) = {"purl", "dependencies", "sources"}
                /\ IF owners # {}
                   THEN Get(entry, "sources") = Get(Get(gomod_data, module), "dependencies")
                   ELSE /\ Get(entry, "sources") = <<>>
                        /\ \E w \in 1..Len(log) :
                               log[w] = [level |-> "warning", about |-> Get(entry, "purl")]

\* to_json returned for a go-package followed by two modules that own it: its
\* sources are the dependencies of the longer one, which came after it
C12_Witness ==
    /\ JustReturned
    /\ Len(given) = 3
    /\ given[1].type = "go-package" /\ given[1].name = <<"org", "proj", "foo", "pkg">>
    /\ {given[2].name, given[3].name} = {Root, Foo}
    /\ given[2].type = "gomod" /\ given[3].type = "gomod"
    /\ Get(gopkg_data[1].v, "sources") = Get(Get(gomod_data, Foo), "dependencies")
    /\ Get(gopkg_data[1].v, "sources") # <<>>
    /\ Get(gopkg_data[1].v, "sources") # Get(Get(gomod_data, Root), "dependencies")

\* the names match_parent_module is asked about: those of the packages and of
\* their dependencies
AskedPaths ==
    {packages[i].name : i \in 1..Len(packages)}
        \cup UNION {{packages[i].dependencies[j].name :
                         j \in 1..Len(packages[i].dependencies)} : i \in 1..Len(packages)}

\* C13: match_parent_module(path, names) gives the longest of the names that
\* are path prefixes of path (equal to it, or followed by a separator in it)
\* and none when there is no such name: of org/proj and org/proj/foo the
\* path org/proj/foo/pkg selects org/proj/foo, and org/pro, a string prefix
\* of org/proj that is no path prefix of it, is never given for a path under
\* org/proj.
C13_MatchParentModule ==
    LET names == KeySet(gomod_data)
    IN  /\ \A path \in AskedPaths :
               LET r == MatchParentModule(path, names)
                   owners == {m \in names : OwnsName(m, path)}
               IN  /\ r.found <=> owners # {}
                   /\ r.found => /\ r.name \in owners
                                 /\ \A o \in owners : Len(o) <= Len(r.name)
                   /\ (r.found /\ OwnsName(Root, path)) => r.name # <<"org", "pro">>
        /\ {Root, Foo} \subseteq names =>
               MatchParentModule(<<"org", "proj", "foo", "pkg">>, {Root, Foo}).name = Foo

\* set_go_package_sources has asked for the module of the go-package
\* org/proj/foo with the modules org/pro and org/proj registered, and gave
\* it the dependencies of org/proj
C13_Witness ==
    /\ jpc = "return"
    /\ KeySet(gomod_data) = {<<"org", "pro">>, Root}
    /\ Len(gopkg_data) = 1
    /\ gopkg_data[1].k[1] = Foo
    /\ MatchParentModule(Foo, KeySet(gomod_data)).name = Root
    /\ Get(gopkg_data[1].v, "sources") = Get(Get(gomod_data, Root), "dependencies")
    /\ Get(gopkg_data[1].v, "sources") # <<>>

\* the nested modules A, B and C
ModuleA == Root
ModuleB == Foo
ModuleC == <<"org", "proj", "foo", "pkg">>

\* the three nested modules are the packages of the list, and to_json is
\* through its loops
NestedDone ==
    /\ LoopsDone \/ JustReturned
    /\ Len(given) = 3
    /\ \A i \in 1..3 : given[i].type = "gomod"
    /\ {given[i].name : i \in 1..3} = {ModuleA, ModuleB, ModuleC}

\* the purls of the dependencies of module C, as registered
PurlsOfC == {Get(Get(Get(gomod_data, ModuleC), "dependencies")[n], "purl") :
                n \in 1..Len(Get(Get(gomod_data, ModuleC), "dependencies"))}

\* C14 as stated: with the nested modules A, B and C all gomod packages,
\* the local dependency of C on A gets in to_json() the purl of A with C's
\* path relative to A as its fragment.
C14_AsStated ==
    NestedDone =>
        (Get(Get(gomod_data, ModuleA), "purl") \o <<"#", "foo", "/", "pkg">>) \in PurlsOfC

\* C14, amended: with the nested modules A, B and C all gomod packages, the
\* local dependency of C on A gets in to_json() the registered purl of A
\* itself, without a fragment, whether B stands before or after C in the
\* list.
C14_NestedModules ==
    NestedDone =>
        /\ Get(Get(gomod_data, ModuleA), "purl") \in PurlsOfC
        /\ \A p \in PurlsOfC :
               ~(/\ Len(p) > Len(Get(Get(gomod_data, ModuleA), "purl"))
                 /\ SubSeq(p, 1, Len(Get(Get(gomod_data, ModuleA), "purl")) + 1)
                        = Get(Get(gomod_data, ModuleA), "purl") \o <<"#">>)

\* to_json returned for the list C, B, A: B after C
C14_Witness ==
    /\ NestedDone /\ JustReturned
    /\ given[1].name = ModuleC /\ given[2].name = ModuleB /\ given[3].name = ModuleA
    /\ Get(Get(gomod_data, ModuleA), "purl") \in PurlsOfC

\* a step of the second loop of to_json on a local gomod dependency of a
\* gomod package that raises nothing
GomodLocalStep ==
    /\ jpc = "deps" /\ jpc' # "idle"
    /\ packages[ji].type = "gomod"
    /\ packages[ji].dependencies[jj].type = "gomod"
    /\ IsLocal(packages[ji].dependencies[jj].version)

\* the longest of the registered module names that own the path
LongestOwner(path) ==
    CHOOSE o \in OwnersOf(path) : \A q \in OwnersOf(path) : Len(q) <= Len(o)

\* the path below the module root, "." for the root itself
BelowRoot(path, root) ==
    IF path = root THEN <<".">> ELSE SubSeq(path, Len(root) + 1, Len(path))

\* C15 as stated: in process_gomod, a local gomod dependency whose own name
\* is a registered module name gets that module's registered purl, without
\* a fragment; any other gets the registered purl of the longest-prefix
\* parent module of normpath(package.name + "/" + version), then "#" and the
\* path of the dependency below that module's root.
C15_AsStated ==
    [][GomodLocalStep =>
          LET package == packages[ji]
              dependency == package.dependencies[jj]
              dep_normpath == Normpath(package.name \o dependency.version.path)
              purl == IF HasKey(gomod_data, dependency.name)
                      THEN Get(Get(gomod_data, dependency.name), "purl")
                      ELSE Get(Get(gomod_data, LongestOwner(dep_normpath)), "purl")
                               \o <<"#">>
                               \o JoinWith(BelowRoot(dep_normpath,
                                                     LongestOwner(dep_normpath)), "/")
          IN  Get(Get(gomod_data', package.name), "dependencies")
                  = Append(Get(Get(gomod_data, package.name), "dependencies"),
                           <<KV("purl", purl)>>)]_vars

\* a step of the second loop of to_json on a local go-package dependency of
\* a go-package that raises nothing
GoPackageLocalStep ==
    /\ jpc = "deps" /\ jpc' # "idle"
    /\ packages[ji].type = "go-package"
    /\ packages[ji].dependencies[jj].type = "go-package"
    /\ IsLocal(packages[ji].dependencies[jj].version)

\* the names of the gomod packages of the list that own the path, the
\* longest of them, and the version of the last gomod package of a name
GomodOwners(path) ==
    {packages[n].name : n \in {m \in 1..Len(packages) :
                                  packages[m].type = "gomod" /\ OwnsName(packages[m].name, path)}}

LongestGomodOwner(path) ==
    CHOOSE o \in GomodOwners(path) : \A q \in GomodOwners(path) : Len(q) <= Len(o)

GomodVersion(name) ==
    packages[CHOOSE n \in 1..Len(packages) :
                /\ packages[n].type = "gomod" /\ packages[n].name = name
                /\ \A m \in (n + 1)..Len(packages) :
                       ~(packages[m].type = "gomod" /\ packages[m].name = name)].version

\* C16: a local go-package dependency whose name a known gomod name is a
\* path prefix of takes the version of that module, and its purl is the
\* ordinary pkg:golang/<dependency name>@<module version>; any other keeps
\* its version, and its purl is the registered purl of the module that owns
\* normpath(<parent module of the owning package> + "/" + version), then
\* "#" and the path below that module's root.
C16_LocalGoPackageDependency ==
    [][GoPackageLocalStep =>
          LET package == packages[ji]
              dependency == package.dependencies[jj]
              appended(purl) ==
                  Get(Get(gopkg_data', PackageId(package)), "dependencies")
                      = Append(Get(Get(gopkg_data, PackageId(package)), "dependencies"),
                               <<KV("purl", purl)>>)
          IN  IF GomodOwners(dependency.name) # {}
              THEN LET version == GomodVersion(LongestGomodOwner(dependency.name))
                   IN  /\ packages'[ji].dependencies[jj].version = version
                       /\ appended(<<"pkg:", "golang", "/">> \o QuoteName(dependency.name)
                                       \o <<"@", version.val>>)
              ELSE LET dep_normpath ==
                           Normpath(LongestGomodOwner(package.name)
                                        \o dependency.version.path)
                       owner == LongestGomodOwner(dep_normpath)
                   IN  /\ packages' = packages
                       /\ appended(Get(Get(gomod_data, owner), "purl") \o <<"#">>
                                       \o JoinWith(BelowRoot(dep_normpath, owner), "/"))]_vars

\* to_json returned for a go-package with two local dependencies: one took
\* the version of the module of its name, the other has a purl with a
\* fragment
C16_Witness ==
    /\ JustReturned
    /\ \E i \in 1..Len(packages) :
           /\ packages[i].type = "go-package"
           /\ Len(packages[i].dependencies) = 2
           /\ given[i].dependencies[1].version.kind = "local"
           /\ packages[i].dependencies[1].version.kind = "plain"
           /\ packages[i].dependencies[2].version.kind = "local"
           /\ \E n \in 1..Len(Get(Get(gopkg_data, PackageId(packages[i])), "dependencies")) :
                  \E c \in 1..Len(Get(Get(Get(gopkg_data, PackageId(packages[i])),
                                           "dependencies")[n], "purl")) :
                      Get(Get(Get(gopkg_data, PackageId(packages[i])),
                              "dependencies")[n], "purl")[c] = "#"

\* the packages of the list, and these with their dependencies
TopLevelObjects == {packages[i] : i \in 1..Len(packages)}

AllObjects ==
    TopLevelObjects \cup
        UNION {{packages[i].dependencies[j] : j \in 1..Len(packages[i].dependencies)} :
                   i \in 1..Len(packages)}

\* the package with one of the four fields changed
OtherName(p) == [p EXCEPT !.name = Append(@, "x")]
OtherType(p) == [p EXCEPT !.type = IF @ = "npm" THEN "pip" ELSE "npm"]
OtherVersion(p) == [p EXCEPT !.version = IF @ = Plain("v1") THEN NoVersion ELSE Plain("v1")]
OtherDev(p) == [p EXCEPT !.dev = ~@]

\* values that are no Package: the dict of the four fields, and the dict
\* Package.from_json reads the package from
FieldsDict(p) == [name |-> p.name, type |-> p.type, version |-> p.version, dev |-> p.dev]

JsonDict(p) == [name |-> p.name, type |-> p.type, version |-> p.version, dev |-> p.dev,
                dependencies |-> p.dependencies]

\* C17: two Packages are equal exactly when they agree on name, type,
\* version and dev, whatever their paths and dependencies, and equal
\* Packages have equal hashes; a Package with one of the four fields changed
\* is unequal to the original; equality is reflexive, symmetric and
\* transitive; a Package equals no value that is not a Package.
C17_PackageEquality ==
    /\ \A p, q \in AllObjects :
           /\ PackageEq(p, q) <=> (/\ p.name = q.name /\ p.type = q.type
                                   /\ p.version = q.version /\ p.dev = q.dev)
           /\ PackageEq(p, q) => PackageHash(p) = PackageHash(q)
           /\ PackageEq(p, q) <=> PackageEq(q, p)
    /\ \A p \in AllObjects :
           /\ PackageEq(p, p)
           /\ ~PackageEq(p, OtherName(p)) /\ ~PackageEq(p, OtherType(p))
           /\ ~PackageEq(p, OtherVersion(p)) /\ ~PackageEq(p, OtherDev(p))
           /\ PackageEq(p, [p EXCEPT !.path = <<"elsewhere">>, !.dependencies = <<>>])
           /\ ~PackageEq(p, FieldsDict(p)) /\ ~PackageEq(p, JsonDict(p))
    /\ \A p, q, r \in TopLevelObjects :
           (PackageEq(p, q) /\ PackageEq(q, r)) => PackageEq(p, r)

\* to_json returned for two equal packages with different paths and
\* different dependencies, which share one entry
C17_Witness ==
    /\ JustReturned
    /\ Len(packages) = 2
    /\ PackageEq(packages[1], packages[2])
    /\ packages[1].path # packages[2].path
    /\ packages[1].dependencies # packages[2].dependencies
    /\ Len(TypeData(Self, packages[1].type)) = 1

\* the types whose working map is keyed by the Package, and the map of one
KeyedByPackage == {"go-package", "npm", "pip", "yarn", "rubygems", "git-submodule"}

MapOf(t) ==
    CASE t = "go-package" -> gopkg_data
      [] t = "git-submodule" -> gitsubmodule_data
      [] OTHER -> TypeData(Self, t)

\* the places of the packages equal to packages[i], and the first of them
Occurrences(i) == {h \in 1..Len(packages) : PackageEq(packages[h], packages[i])}
FirstOccurrence(i) == CHOOSE h \in Occurrences(i) : \A g \in Occurrences(i) : h <= g

RECURSIVE ExpectedPackage(_)
\* the Package a JSON object stands for, its dependencies as a sequence
ExpectedPackage(json) ==
    LET dependencies == IF HasKey(json, "dependencies")
                        THEN Get(json, "dependencies") ELSE <<>>
    IN  [name |-> Get(json, "name"), type |-> Get(json, "type"),
         version |-> Get(json, "version"),
         dev |-> IF HasKey(json, "dev") THEN Get(json, "dev") ELSE FALSE,
         path |-> IF HasKey(json, "path") THEN Get(json, "path") ELSE <<>>,
         dependencies |-> [n \in 1..Len(dependencies) |-> ExpectedPackage(dependencies[n])]]

RECURSIVE ValueOf(_)
\* a Package object with the lists in the place of their addresses
ValueOf(obj) ==
    [obj EXCEPT !.dependencies = [n \in 1..Len(heap[@]) |-> ValueOf(heap[@][n])]]

\* the appended package, as a value, and how often a caller appended to
\* built[k]
ExtraValue ==
    [name |-> ExtraName, type |-> "npm", version |-> NoVersion, dev |-> FALSE,
     path |-> <<>>, dependencies |-> <<>>]

TimesAppended(k) == Cardinality({n \in 1..Len(appended_to) : appended_to[n] = k})

\* the Package objects that hold the list at address a in `dependencies`
HoldersOf(a) ==
    Cardinality({k \in 1..Len(built) : built[k].err = "" /\ built[k].obj.dependencies = a})
        + Cardinality(UNION {{<<b, n>> : n \in {m \in 1..Len(heap[b]) :
                                                     heap[b][m].dependencies = a}} :
                                 b \in 1..Len(heap)})

\* C19: the Package that Package.from_json returns has the name, type and
\* version of the JSON object, dev false and path None where the object has
\* no such key, nothing of any other key, and as dependencies the Packages
\* converted in the same way from the object's `dependencies`, none where
\* there is no such key; no two Packages hold the same list, and a package
\* appended to the dependencies of one Package shows in that Package alone.
C19_FromJson ==
    /\ \A k \in 1..Len(built) :
           built[k].err = "" =>
               /\ IsPackage(built[k].obj)
               /\ ValueOf(built[k].obj)
                      = [ExpectedPackage(raw[k]) EXCEPT
                             !.dependencies =
                                 @ \o [n \in 1..TimesAppended(k) |-> ExtraValue]]
    /\ \A a \in 1..Len(heap) : HoldersOf(a) <= 1

\* two packages were built from objects without dependencies, dev and
\* path, one of the objects with an unknown key; a caller appended to the
\* first alone
C19_Witness ==
    /\ Len(built) = 2
    /\ built[1].err = "" /\ built[2].err = ""
    /\ ~HasKey(raw[1], "dependencies") /\ ~HasKey(raw[2], "dependencies")
    /\ ~HasKey(raw[1], "dev") /\ ~HasKey(raw[1], "path")
    /\ HasKey(raw[2], "invalid-attribute")
    /\ appended_to = <<1>>
    /\ Len(heap[built[1].obj.dependencies]) = 1
    /\ heap[built[2].obj.dependencies] = <<>>

\* C20: to_top_level_purl gives for a gomod, go-package or git-submodule
\* package what to_purl gives for the package, whatever the subpath; for an
\* npm, pip, yarn or rubygems package the VCS purl of the request's repo and
\* ref, followed by "#" and the subpath exactly when a subpath is given; for
\* a package of any other type it raises "'<type>' is not a valid top level
\* package".
C20_ToTopLevelPurl ==
    \A k \in 1..Len(returned) :
        returned[k].op = "to_top_level_purl" =>
            LET package == given[returned[k].arg.val[1]]
                subpath == returned[k].arg.val[2]
                vcs == ToVcsPurl(RepoName(request.repo), request.repo, request.ref)
            IN  /\ package.type \in {"gomod", "go-package", "git-submodule"} =>
                       /\ returned[k].status = "returned" <=> ToPurl(package, NoPath).ok
                       /\ returned[k].value = ToPurl(package, NoPath).purl
                       /\ returned[k].err = ToPurl(package, NoPath).err
                /\ package.type \in {"npm", "pip", "yarn", "rubygems"} =>
                       /\ returned[k].status = "returned"
                       /\ subpath = <<>> => returned[k].value = vcs
                       /\ subpath # <<>> =>
                              returned[k].value = vcs \o <<"#">> \o JoinWith(subpath, "/")
                /\ package.type \notin SupportedTypes =>
                       /\ returned[k].status = "raised"
                       /\ returned[k].err
                              = "'" \o package.type \o "' is not a valid top level package"

\* to_top_level_purl was called on a go-package with a subpath and without
\* one, and gave the same purl
C20_Witness ==
    /\ Len(returned) = 2
    /\ returned[1].op = "to_top_level_purl" /\ returned[2].op = "to_top_level_purl"
    /\ given[1].type = "go-package"
    /\ returned[1].arg.val[2] = <<>> /\ returned[2].arg.val[2] = <<"some", "subpath">>
    /\ returned[1].status = "returned"
    /\ returned[1].value = returned[2].value

\* the last record of the calls finished after the step
LastReturned == returned'[Len(returned')]

\* C21: to_purl raises "The PURL spec is not defined for <type> packages"
\* for a package of an unsupported type, "Unknown protocol in <type> package
\* version: <version>" for an npm or yarn version with an unrecognised
\* protocol, "Could not convert version <version> to purl" for a forge
\* version that cannot be parsed, three different messages, and returns a
\* purl for the other packages called with; when to_purl raises for a
\* dependency of an npm, pip or yarn package, to_json() and
\* sbom_components_list() raise the same error.
C21_PurlErrors ==
    [][ /\ (Len(returned') > Len(returned) /\ LastReturned.op = "to_purl") =>
              LET package == PurlInputs[LastReturned.arg.val[1]]
                  kind == package.version.kind
              IN  /\ package.type \notin SupportedTypes =>
                         /\ LastReturned.status = "raised"
                         /\ LastReturned.err = "The PURL spec is not defined for "
                                                   \o package.type \o " packages"
                  /\ (package.type \in {"npm", "yarn"} /\ kind = "unknown") =>
                         /\ LastReturned.status = "raised"
                         /\ LastReturned.err = "Unknown protocol in " \o package.type
                                                   \o " package version: "
                                                   \o "unknown://example.com/dep"
                  /\ kind = "bogus" =>
                         /\ LastReturned.status = "raised"
                         /\ LastReturned.err = "Could not convert version "
                                                   \o "github:something/odd" \o " to purl"
                  /\ (package.type \in SupportedTypes /\ kind \in {"plain", "forge"}) =>
                         /\ LastReturned.status = "returned"
                         /\ LastReturned.value # <<>>
        /\ (/\ jpc = "deps"
            /\ packages[ji].type \in StandardTypes
            /\ packages[ji].dependencies[jj].type = packages[ji].type
            /\ ~ToPurl(packages[ji].dependencies[jj], NoPath).ok) =>
               /\ jpc' = "idle"
               /\ LastReturned
                      = Raised("to_json", ToPurl(packages[ji].dependencies[jj], NoPath).err)
        /\ (/\ spc = "deps"
            /\ packages[si].type \in StandardTypes
            /\ packages[si].dependencies[sj].type = packages[si].type
            /\ ~ToPurl(packages[si].dependencies[sj], NoPath).ok) =>
               /\ spc' = "idle"
               /\ LastReturned
                      = Raised("sbom_components_list",
                               ToPurl(packages[si].dependencies[sj], NoPath).err)]_vars

\* to_json raised the error of a forge version that cannot be parsed, after
\* a direct call of to_purl raised for an unsupported type
C21_Witness ==
    /\ Len(returned) = 2
    /\ returned[1].op = "to_purl" /\ returned[1].status = "raised"
    /\ PurlInputs[returned[1].arg.val[1]].type = "cargo"
    /\ returned[2].op = "to_json" /\ returned[2].status = "raised"
    /\ returned[2].err = "Could not convert version github:something/odd to purl"

\* the working map of the Go modules has nothing for the gomod dependency
\* that the loop of to_json, or of sbom_components_list, is at
ToJsonAtLostModule ==
    /\ jpc = "deps"
    /\ packages[ji].type = "gomod"
    /\ packages[ji].dependencies[jj].type = "gomod"
    /\ gomod_data = <<>>

SbomAtLostModule ==
    /\ spc = "deps"
    /\ packages[si].type = "gomod"
    /\ packages[si].dependencies[sj].type = "gomod"
    /\ gomod_data = <<>>

\* C22: with a to_json() and a sbom_components_list() call interleaved on
\* one instance, a call that comes to a gomod dependency after the other
\* call has emptied the working map of the Go modules ends there with an
\* exception; a call on a second instance, built over Package objects of
\* its own, ends under every interleaving as it ends on an instance no
\* other call is made on.
C22_Interleaving ==
    /\ [](\A k \in 1..Len(other.returned) :
              other.returned[k] = OnNewInstance(other.returned[k].op))
    /\ [][ /\ ToJsonAtLostModule =>
                 (<<jpc, ji, jj>>' # <<jpc, ji, jj>> => (jpc' = "idle" /\ LastReturned.op = "to_json"
                                      /\ LastReturned.status = "raised"))
           /\ SbomAtLostModule =>
                 (<<spc, si, sj>>' # <<spc, si, sj>> => (spc' = "idle" /\ LastReturned.op = "sbom_components_list"
                                      /\ LastReturned.status = "raised"))]_vars

\* to_json raised on the first instance, where a call of it alone returns a
\* document, and the call on the second instance has returned
C22_Witness ==
    /\ \E k \in 1..Len(returned) :
           /\ returned[k].op = "to_json"
           /\ returned[k].status = "raised"
           /\ OnNewInstance("to_json").status = "returned"
    /\ Len(other.returned) = 1
    /\ other.returned[1].status = "returned"

\* C23 as stated: after to_json() and sbom_components_list() the Request
\* and every Package, top-level or dependency, are as they were before.
C23_AsStated ==
    /\ request = DefaultRequest
    /\ packages = given

\* C23, amended: to_json() and sbom_components_list() leave the Request and
\* every top-level Package as they were, and every dependency too but for
\* its version: a local go-package dependency of a go-package whose name a
\* gomod package of the list owns has, once processed, the version of that
\* module in the place of its own.
C23_OnlyLocalVersions ==
    /\ request = DefaultRequest
    /\ Len(packages) = Len(given)
    /\ \A i \in 1..Len(given) :
           /\ [packages[i] EXCEPT !.dependencies = <<>>]
                  = [given[i] EXCEPT !.dependencies = <<>>]
           /\ Len(packages[i].dependencies) = Len(given[i].dependencies)
           /\ \A j \in 1..Len(given[i].dependencies) :
                  LET was == given[i].dependencies[j]
                      is == packages[i].dependencies[j]
                  IN  /\ [is EXCEPT !.version = was.version] = was
                      /\ is.version # was.version =>
                             /\ given[i].type = "go-package" /\ was.type = "go-package"
                             /\ IsLocal(was.version)
                             /\ GomodOwners(was.name) # {}
                             /\ is.version = GomodVersion(LongestGomodOwner(was.name))

\* sbom_components_list returned, and a local dependency has the version of
\* the module of its name
C23_Witness ==
    /\ Len(returned) = 1 /\ SbomReturned(1)
    /\ jpc = "idle" /\ spc = "idle"
    /\ \E i \in 1..Len(given) : \E j \in 1..Len(given[i].dependencies) :
           /\ IsLocal(given[i].dependencies[j].version)
           /\ packages[i].dependencies[j].version.kind = "plain"

\* every gomod package of the list has its name in the gomod working map
AllModulesSeeded ==
    \A i \in 1..Len(packages) :
        packages[i].type = "gomod" => HasKey(gomod_data, packages[i].name)

\* C24: in to_json() and in sbom_components_list() the first loop is over
\* for every package of the list before the first dependency is processed,
\* and it is not entered again: whenever a dependency is about to be
\* processed, the gomod working map holds the name of every gomod package
\* of the list, wherever the package stands in the list.
C24_SeedBeforeDependencies ==
    /\ []((jpc = "deps" \/ spc = "deps") => AllModulesSeeded)
    /\ [][ /\ jpc = "deps" => jpc' # "seed"
           /\ spc = "deps" => spc' # "seed"
           /\ jpc' = "deps" /\ jpc # "deps" => jpc = "seed" /\ ji = Len(packages)
           /\ spc' = "deps" /\ spc # "deps" => spc = "seed" /\ si = Len(packages)]_vars

\* to_json is about to process a dependency of a package that stands in
\* the list before a gomod package
C24_Witness ==
    /\ jpc = "deps"
    /\ \E i \in 1..Len(packages) :
           /\ ji < i
           /\ packages[i].type = "gomod"
           /\ HasKey(gomod_data, packages[i].name)

\* the step is a call of _get_local_go_package_dep_purl
LocalCallStep ==
    /\ Len(returned') = Len(returned) + 1
    /\ LastReturned.op = "_get_local_go_package_dep_purl"

\* the maps the processing methods append to, and the components
WorkingMaps ==
    <<gopkg_data, gomod_data, npm_data, pip_data, yarn_data, rubygems_data,
      gitsubmodule_data, sbom_components>>

\* the path from the module of the package at i along version
DepNormpath(i, version) ==
    Normpath(LongestGomodOwner(packages[i].name) \o version.path)

\* the three failures, for dependency j of packages[i]
InvalidVersionCase(i, j) == ~IsLocal(packages[i].dependencies[j].version)

NoPackageModuleCase(i, j) ==
    /\ IsLocal(packages[i].dependencies[j].version)
    /\ GomodOwners(packages[i].dependencies[j].name) = {}
    /\ GomodOwners(packages[i].name) = {}

NoDependencyModuleCase(i, j) ==
    /\ IsLocal(packages[i].dependencies[j].version)
    /\ GomodOwners(packages[i].dependencies[j].name) = {}
    /\ GomodOwners(packages[i].name) # {}
    /\ GomodOwners(DepNormpath(i, packages[i].dependencies[j].version)) = {}

\* the module that owns the path of the dependency has no entry in the
\* gomod working map
NoEntryCase(i, j) ==
    /\ IsLocal(packages[i].dependencies[j].version)
    /\ GomodOwners(packages[i].dependencies[j].name) = {}
    /\ GomodOwners(packages[i].name) # {}
    /\ GomodOwners(DepNormpath(i, packages[i].dependencies[j].version)) # {}
    /\ ~HasKey(gomod_data,
               LongestGomodOwner(DepNormpath(i, packages[i].dependencies[j].version)))

\* what the three failures raise, and what a failure leaves alone
RaisesAsDocumented(i, j) ==
    /\ InvalidVersionCase(i, j) =>
           LastReturned.err = "ValueError: " \o PackageRepr(packages[i].dependencies[j])
                                  \o " has an invalid version for a local dependency"
    /\ NoPackageModuleCase(i, j) =>
           LastReturned.err = "RuntimeError: Could not find parent Go module for package: "
                                  \o PathText(packages[i].name)
    /\ NoDependencyModuleCase(i, j) =>
           LastReturned.err = "RuntimeError: Could not find parent Go module for package: "
                                  \o PathText(DepNormpath(i, packages[i].dependencies[j].version))
    /\ LastReturned.status = "raised" => UNCHANGED WorkingMaps /\ packages' = packages
    /\ IsLocal(packages[i].dependencies[j].version)
           /\ GomodOwners(packages[i].dependencies[j].name) # {}
         => LastReturned.status = "returned"

\* C25 as stated: _get_local_go_package_dep_purl fails in exactly three
\* cases: ValueError for a version that is not local, RuntimeError naming
\* the package when neither the dependency's name nor the package's name
\* has a module, RuntimeError naming the normalised path when no module
\* owns it; a failure leaves the working maps as they were, and a
\* dependency whose name has a module succeeds whatever the package.
C25_AsStated ==
    [][LocalCallStep =>
          LET i == LastReturned.arg.val[1]
              j == LastReturned.arg.val[2]
          IN  /\ LastReturned.status = "raised"
                   <=> \/ InvalidVersionCase(i, j)
                       \/ NoPackageModuleCase(i, j)
                       \/ NoDependencyModuleCase(i, j)
              /\ RaisesAsDocumented(i, j)]_vars

\* C25, amended: the three failures are as stated, a failure leaves the
\* working maps as they were and a dependency whose name has a module
\* succeeds whatever the package; there is a fourth failure, a KeyError,
\* when the module that owns the normalised path has no entry in the gomod
\* working map (the method is called before a call seeded the map).
C25_LocalDepPurlFailures ==
    [][LocalCallStep =>
          LET i == LastReturned.arg.val[1]
              j == LastReturned.arg.val[2]
          IN  /\ LastReturned.status = "raised"
                   <=> \/ InvalidVersionCase(i, j)
                       \/ NoPackageModuleCase(i, j)
                       \/ NoDependencyModuleCase(i, j)
                       \/ NoEntryCase(i, j)
              /\ RaisesAsDocumented(i, j)
              /\ NoEntryCase(i, j) => LastReturned.err = "KeyError"]_vars

\* a call raised the ValueError, and the next returned the purl of a
\* dependency whose name has a module while the package has none
C25_Witness ==
    /\ Len(returned) = 2
    /\ returned[1].op = "_get_local_go_package_dep_purl"
    /\ returned[1].status = "raised"
    /\ InvalidVersionCase(returned[1].arg.val[1], returned[1].arg.val[2])
    /\ returned[2].op = "_get_local_go_package_dep_purl"
    /\ returned[2].status = "returned"
    /\ GomodOwners(packages[returned[2].arg.val[1]].name) = {}

\* a step of the second loop of to_json on a dependency of a rubygems
\* package that raises nothing
RubygemsStep == jpc = "deps" /\ packages[ji].type = "rubygems" /\ jpc' # "idle"

\* the purl of the request's repository at its ref
RequestVcsPurl == ToVcsPurl(RepoName(request.repo), request.repo, request.ref)

\* C26: in to_json(), the {purl} of every rubygems dependency of a rubygems
\* package is appended to both `dependencies` and `sources` of the owning
\* entry, dev or not, and a dependency of another type to neither, so the
\* two lists of a rubygems entry are equal in every state; the purl of a
\* local dependency is the request's VCS purl, "#", and the owning
\* package's path joined with the dependency's relative path (the relative
\* path alone when the package has no path).
C26_Rubygems ==
    /\ [](\A n \in 1..Len(rubygems_data) :
             Get(rubygems_data[n].v, "dependencies") = Get(rubygems_data[n].v, "sources"))
    /\ [][RubygemsStep =>
            LET key == PackageId(packages[ji])
                d == packages[ji].dependencies[jj]
                purl == IF IsLocal(d.version)
                        THEN RequestVcsPurl \o <<"#">>
                                 \o JoinWith(packages[ji].path \o d.version.path, "/")
                        ELSE ToPurl(d, NoPath).purl
            IN  IF d.type = "rubygems"
                THEN /\ Get(NextEntryOf(key, "rubygems"), "dependencies")
                            = Append(Get(EntryOf(key, "rubygems"), "dependencies"),
                                     <<KV("purl", purl)>>)
                     /\ Get(NextEntryOf(key, "rubygems"), "sources")
                            = Append(Get(EntryOf(key, "rubygems"), "sources"),
                                     <<KV("purl", purl)>>)
                ELSE NextEntryOf(key, "rubygems") = EntryOf(key, "rubygems")]_vars

\* to_json returned over a rubygems package without a path and one with a
\* path, each with a local dependency, one of them dev: both purls are in
\* the `sources` of their entries
C26_Witness ==
    /\ JustReturned
    /\ \E a, b \in 1..Len(packages) :
           /\ packages[a].type = "rubygems" /\ packages[a].path = <<>>
           /\ packages[b].type = "rubygems" /\ packages[b].path = <<"sub">>
           /\ packages[a].dependencies[1].dev
           /\ Get(EntryOf(PackageId(packages[a]), "rubygems"), "sources")
                  = << <<KV("purl", RequestVcsPurl \o <<"#", "vendor", "/", "lib">>)>> >>
           /\ <<KV("purl", RequestVcsPurl \o <<"#", "sub", "/", "vendor", "/", "lib">>)>>
                  \in { Get(EntryOf(PackageId(packages[b]), "rubygems"), "sources")[n] :
                          n \in 1..Len(Get(EntryOf(PackageId(packages[b]), "rubygems"),
                                           "sources")) }

\* pkg:<forge>/<org>/<repo>@<commit>, of the repository a version names
SubmodulePurl(version) ==
    <<"pkg:", Head(version.path), "/">> \o JoinWith(Tail(version.path), "/")
        \o <<"@", version.val>>

\* the places of the git-submodule packages of the list
Submodules == {i \in 1..Len(given) : given[i].type = "git-submodule"}

\* C27: a git-submodule package has the purl to_purl(package), of the
\* repository and commit of its version and without its path, in its entry
\* of image_contents in to_json() and in its component in
\* sbom_components_list(); its entry has empty `dependencies` and `sources`
\* in every state, also when the package lists dependencies.
C27_GitSubmodule ==
    /\ \A n \in 1..Len(gitsubmodule_data) :
           /\ Get(gitsubmodule_data[n].v, "purl") = SubmodulePurl(gitsubmodule_data[n].k[3])
           /\ Get(gitsubmodule_data[n].v, "dependencies") = <<>>
           /\ Get(gitsubmodule_data[n].v, "sources") = <<>>
    /\ \A k \in 1..Len(returned) :
           /\ returned[k].op = "to_json" /\ returned[k].status = "returned" =>
                  \A i \in Submodules :
                      \E n \in 1..Len(Get(returned[k].value, "image_contents").val) :
                          Get(returned[k].value, "image_contents").val[n]
                              = << KV("dependencies", <<>>),
                                   KV("purl", SubmodulePurl(given[i].version)),
                                   KV("sources", <<>>) >>
           /\ SbomReturned(k) =>
                  \A n \in 1..Len(TopPlaces(given)) :
                      TopPlaces(given)[n] \in Submodules =>
                          /\ Get(returned[k].value[n], "purl")
                                 = SubmodulePurl(given[TopPlaces(given)[n]].version)
                          /\ Get(returned[k].value[n], "name")
                                 = given[TopPlaces(given)[n]].name

\* to_json and sbom_components_list both returned for a git-submodule at a
\* path that lists a dependency: the entry and the component have
\* pkg:github/testrepo/tour@c1
C27_Witness ==
    /\ Len(returned) = 2
    /\ returned[1].op = "to_json" /\ returned[1].status = "returned"
    /\ SbomReturned(2)
    /\ Len(given) = 1 /\ Submodules = {1}
    /\ given[1].path # <<>> /\ given[1].dependencies # <<>>
    /\ Get(returned[1].value, "image_contents").val
           = << << KV("dependencies", <<>>),
                   KV("purl", <<"pkg:", "github", "/", "testrepo", "/", "tour", "@", "c1">>),
                   KV("sources", <<>>) >> >>
    /\ Len(returned[2].value) = 1
    /\ Get(returned[2].value[1], "purl")
           = <<"pkg:", "github", "/", "testrepo", "/", "tour", "@", "c1">>

\* the metadata of BASE_ICM, in the order of the template and as
\* deep_sort_icm leaves a copy of it
TemplateMetadata ==
    << KV("icm_version", VERSION), KV("icm_spec", JSON_SCHEMA_URL),
       KV("image_layer_index", UNKNOWN_LAYER_INDEX) >>

SortedMetadata ==
    << KV("icm_spec", JSON_SCHEMA_URL), KV("icm_version", VERSION),
       KV("image_layer_index", UNKNOWN_LAYER_INDEX) >>

\* the step ends a call of to_json or generate_icm that returns a document
DocumentReturned(before, after) ==
    /\ Len(after) = Len(before) + 1
    /\ after[Len(after)].op \in {"to_json", "generate_icm"}
    /\ after[Len(after)].status = "returned"

\* C28: whatever calls of to_json() and generate_icm() two instances make,
\* and whatever a caller changes in the metadata of a document it was
\* returned, BASE_ICM keeps its empty image_contents and its three metadata
\* values, and every document returned later has the three metadata values.
C28_TemplateUntouched ==
    /\ [](/\ Get(base_icm, "image_contents") = [tag |-> "list", val |-> <<>>]
          /\ Get(base_icm, "metadata") = TemplateMetadata
          /\ Keys(base_icm) = <<"metadata", "image_contents">>)
    /\ [][ /\ DocumentReturned(returned, returned') =>
                 Get(returned'[Len(returned')].value, "metadata") = SortedMetadata
           /\ DocumentReturned(other.returned, other.returned') =>
                 Get(other.returned'[Len(other.returned')].value, "metadata")
                     = SortedMetadata]_vars

\* a caller changed the metadata of the document of to_json, and a call of
\* generate_icm after that and a call of to_json on the second instance
\* returned documents with the metadata of the template
C28_Witness ==
    /\ Len(returned) = 2
    /\ returned[1].op = "to_json" /\ returned[1].status = "returned"
    /\ Get(Get(returned[1].value, "metadata"), "icm_version") = VERSION + 1
    /\ Get(returned[1].value, "image_contents").val # <<>>
    /\ returned[2].op = "generate_icm"
    /\ Get(returned[2].value, "metadata") = SortedMetadata
    /\ Len(other.returned) = 1 /\ other.returned[1].op = "to_json"
    /\ other.returned[1].status = "returned"
    /\ Get(other.returned[1].value, "metadata") = SortedMetadata
    /\ base_icm = BASE_ICM

\* to_json is at a local gomod dependency of a gomod package whose
\* normalised path no name of the gomod working map owns
AtOrphanGomodDependency ==
    /\ jpc = "deps"
    /\ packages[ji].type = "gomod"
    /\ packages[ji].dependencies[jj].type = "gomod"
    /\ IsLocal(packages[ji].dependencies[jj].version)
    /\ OwnersOf(Normpath(packages[ji].name \o packages[ji].dependencies[jj].version.path)) = {}

\* C29 as stated: when the normalised path of a local gomod dependency has
\* no parent among the registered module names, to_json() fails at that
\* dependency with the parent-module-not-found error of the package-level
\* resolver, whose message names the path, and not with a lookup or type
\* error.
C29_AsStated ==
    [][AtOrphanGomodDependency /\ <<jpc, ji, jj>>' # <<jpc, ji, jj>> =>
          /\ jpc' = "idle"
          /\ LastReturned.op = "to_json" /\ LastReturned.status = "raised"
          /\ LastReturned.err
                 = "RuntimeError: Could not find parent Go module for package: "
                       \o PathText(Normpath(packages[ji].name
                                                \o packages[ji].dependencies[jj].version.path))]_vars

\* no two packages of the list are equal, and no two gomod packages of it
\* have one name
DistinctPackages(pkgs) ==
    \A a, b \in 1..Len(pkgs) :
        a < b => /\ ~PackageEq(pkgs[a], pkgs[b])
                 /\ ~(pkgs[a].type = "gomod" /\ pkgs[b].type = "gomod"
                        /\ pkgs[a].name = pkgs[b].name)

\* the list with the package at place f[n] at place n
Reordered(pkgs, f) == [n \in 1..Len(pkgs) |-> pkgs[f[n]]]

\* C30: over a list of packages no two of which are equal and no two gomod
\* packages of which have one name, a call of to_json() that has just ended
\* ended as to_json() ends on every ordering of the list, and when it
\* returned, with the same document: the same entries in the same order,
\* each with the same purl, dependencies and sources.
C30_OrderIndependent ==
    /\ jpc = "idle" /\ spc = "idle" /\ returned # <<>>
    /\ returned[Len(returned)].op = "to_json"
    /\ DistinctPackages(given)
    => \A f \in Permutations(1..Len(given)) :
           LET r == OnNewInstanceOver("to_json", Reordered(given, f))
           IN  /\ r.status = returned[Len(returned)].status
               /\ r.status = "returned" => r.value = returned[Len(returned)].value

\* to_json returned a document of two entries for two distinct packages,
\* and on the list in the other order the entries are made in another order
C30_Witness ==
    /\ JustReturned
    /\ Len(given) = 2 /\ DistinctPackages(given)
    /\ Len(Get(returned[Len(returned)].value, "image_contents").val) = 2
    /\ OnNewInstanceOver("to_json", <<given[2], given[1]>>).arg
           # returned[Len(returned)].arg
    /\ OnNewInstanceOver("to_json", <<given[2], given[1]>>).after
           = returned[Len(returned)].after

====
